---- MODULE Spec2Model ----
(***************************************************************************)
(* Model of the four-state multi-precision integer engine of svdata        *)
(* (src/src/sv_primlit_integral.rs).  A value is the struct                *)
(* SvPrimaryLiteralIntegral: data_01 and data_xz are vectors of host words *)
(* (least significant word first), size is the declared width in bits.     *)
(* Vectors are TLA+ sequences, so Rust index i is index i + 1 here.        *)
(* The host word width usize::BITS is the definition BITS.                 *)
(***************************************************************************)
EXTENDS Integers, Sequences, FiniteSets, TLC

\* usize::BITS, scaled down so that multi-word values stay enumerable.
BITS == 2
\* Largest declared width of a two-state operand drawn in Init.
MaxSize == 4
\* Largest declared width of a four-state operand drawn in Init.
MaxSizeXZ == 2
\* Largest shift / rotate distance drawn by the shift actions.
MaxShift == 3
\* The width of i64 and u64, scaled down.
WIDE == 10
\* Largest number of packed dimensions of a drawn parameter declaration.
MaxDims == 2
\* Largest number of words of a drawn four-state value of whole words.
MaxWords == 2
\* Largest number of port declarations of a drawn module header.
MaxPorts == 3
\* Largest number of nodes below the root of a drawn module tree.
MaxNodes == 4

VARIABLES
    pc,               \* "start": operands drawn, "done": an operator returned
    op,               \* the operator that produced res
    lhs,              \* the receiver (&self) of the operator
    rhs,              \* the second operand of a binary operator
    n,                \* the shift / rotate distance
    res,              \* the returned value, or Panic
    flag,             \* the boolean returned by a predicate
    decl,             \* the parameter declaration that is resolved
    param,            \* the parameter record under construction
    overflow_checks,  \* build profile: TRUE when arithmetic overflow aborts
    events,           \* the Enter / Leave events of the module's syntax tree
    pos,              \* the number of events the traversal has consumed
    parent_stack,     \* the names of the nodes entered and not yet left
    entering,         \* TRUE when the last event was an Enter
    prev_port,        \* the port parsed last, or Nothing
    module_ret        \* the module record (ret) under construction

\* The state of the traversal of a module declaration.
module_vars == <<events, pos, parent_stack, entering, prev_port, module_ret>>

vars == <<pc, op, lhs, rhs, n, res, flag, decl, param, overflow_checks, module_vars>>

----------------------------------------------------------------------------
\* Host-word primitives.

Pow2(k) == 2 ^ k

WordMod == Pow2(BITS)

UsizeMax == WordMod - 1

RECURSIVE BitLen(_)
BitLen(w) == IF w = 0 THEN 0 ELSE 1 + BitLen(w \div 2)

\* usize::leading_zeros
leading_zeros(w) == BITS - BitLen(w)

RECURSIVE trailing_zeros(_)
\* usize::trailing_zeros
trailing_zeros(w) ==
    IF w = 0 THEN BITS
    ELSE IF w % 2 = 1 THEN 0 ELSE 1 + trailing_zeros(w \div 2)

\* usize::wrapping_add
wrapping_add(x, y) == (x + y) % WordMod

\* x << 1 on a host word (the bit shifted out is dropped)
shl1(w) == (2 * w) % WordMod

\* Option<Vec<usize>>::None; Some(v) is the sequence v of words.
None == << -1 >>

\* The outcome of a call that aborts (panic!, arithmetic overflow in a build
\* with overflow checks, index out of bounds): no value is returned.
Panic == [data_01 |-> << >>, data_xz |-> None, size |-> 0, signed |-> FALSE]

IsPanic(v) == v.data_01 = << >>

Last(s) == s[Len(s)]

RECURSIVE Zeros(_)
Zeros(k) == IF k <= 0 THEN << >> ELSE <<0>> \o Zeros(k - 1)

----------------------------------------------------------------------------
\* One-bit constants.

bit1b_0 == [data_01 |-> <<0>>, data_xz |-> None, size |-> 1, signed |-> FALSE]

bit1b_1 == [data_01 |-> <<1>>, data_xz |-> None, size |-> 1, signed |-> FALSE]

logic1b_0 == [data_01 |-> <<0>>, data_xz |-> <<0>>, size |-> 1, signed |-> FALSE]

logic1b_1 == [data_01 |-> <<1>>, data_xz |-> <<0>>, size |-> 1, signed |-> FALSE]

logic1b_x == [data_01 |-> <<0>>, data_xz |-> <<1>>, size |-> 1, signed |-> FALSE]

----------------------------------------------------------------------------
\* Primitive helpers.

is_4state(v) == v.data_xz # None

\* contains_xz with the word test "leading_zeros() != 0".
contains_xz_nonzero_lz(v) ==
    IF ~is_4state(v) THEN FALSE
    ELSE \E x \in 1..Len(v.data_xz) : leading_zeros(v.data_xz[x]) # 0

contains_xz(v) ==
    IF ~is_4state(v) THEN FALSE
    ELSE \E x \in 1..Len(v.data_xz) : leading_zeros(v.data_xz[x]) # BITS

to_4state(v) ==
    [data_01 |-> v.data_01,
     data_xz |-> <<0>> \o Zeros(Len(v.data_01) - 1),
     size    |-> v.size,
     signed  |-> v.signed]

\* _primlit_vec_elmnt_match: pads the shorter operand with zero words; the
\* pair <<self, right_nu>> after the call.
_primlit_vec_elmnt_match(self, right) ==
    LET left_size  == Len(self.data_01)
        right_size == Len(right.data_01)
        Pad(v, diff) ==
            [v EXCEPT !.data_01 = @ \o Zeros(diff),
                      !.data_xz = IF is_4state(v) THEN @ \o Zeros(diff) ELSE @]
    IN  IF left_size > right_size
            THEN <<self, Pad(right, left_size - right_size)>>
        ELSE IF left_size < right_size
            THEN <<Pad(self, right_size - left_size), right>>
        ELSE <<self, right>>

RECURSIVE AddWords(_, _, _, _)
\* The carry loop of _unsigned_primlit_add from word x on: the words of the
\* sum, followed by the pushed carry word when the last carry is set.
AddWords(l, r, x, carry_flag) ==
    IF x > Len(l) THEN (IF carry_flag THEN <<1>> ELSE << >>)
    ELSE LET s0 == wrapping_add(l[x], r[x])
             s  == IF carry_flag THEN wrapping_add(s0, 1) ELSE s0
             c  == ~(s >= l[x] /\ s >= r[x])
         IN  <<s>> \o AddWords(l, r, x + 1, c)

_unsigned_primlit_add(self, right) ==
    LET m == _primlit_vec_elmnt_match(self, right)
    IN  [m[1] EXCEPT !.data_01 = AddWords(m[1].data_01, m[2].data_01, 1, FALSE)]

\* The subtraction chain of is_set_msb_01 / is_set_msb_xz leaves the range of
\* usize for a vector of len words and this size.
msb_overflows(len, size) ==
    \/ size < (len - 1) * BITS
    \/ size - (len - 1) * BITS > BITS

\* With overflow checks the call aborts; without them the wrapped operand
\* never equals a leading-zero count, so the test is false.
msb_aborts(v) ==
    overflow_checks /\ msb_overflows(Len(v.data_01), v.size)

msb_xz_aborts(v) ==
    overflow_checks /\ is_4state(v) /\ msb_overflows(Len(v.data_xz), v.size)

is_set_msb_01(v) ==
    /\ ~msb_overflows(Len(v.data_01), v.size)
    /\ leading_zeros(Last(v.data_01)) = BITS - (v.size - (Len(v.data_01) - 1) * BITS)

is_set_msb_xz(v) ==
    /\ is_4state(v)
    /\ ~msb_overflows(Len(v.data_xz), v.size)
    /\ leading_zeros(Last(v.data_xz)) = BITS - (v.size - (Len(v.data_xz) - 1) * BITS)

_matched_zero_extend(self, right) ==
    IF self.signed \/ right.signed THEN <<Panic, Panic>>
    ELSE LET m == _primlit_vec_elmnt_match(self, right)
         IN  <<[m[1] EXCEPT !.size = Len(m[1].data_01) * BITS],
               [m[2] EXCEPT !.size = Len(m[2].data_01) * BITS]>>

\* FillLeading that leaves the loop after the last word, whatever it holds.
FillLeadingLastOnly(d, x) ==
    IF x < 1 THEN d
    ELSE [d EXCEPT ![x] = @ + (UsizeMax - (Pow2(BITS - leading_zeros(@)) - 1))]

RECURSIVE FillLeading(_, _)
\* The sign-replication loop of _matched_sign_extend and _sign_extend: from
\* the last word down, every leading zero bit is set, up to and including
\* the first word that is not zero.
FillLeading(d, x) ==
    IF x < 1 THEN d
    ELSE LET left_leading == leading_zeros(d[x])
             filled == d[x] + (UsizeMax - (Pow2(BITS - left_leading) - 1))
             d2 == [d EXCEPT ![x] = filled]
         IN  IF left_leading # BITS THEN d2 ELSE FillLeading(d2, x - 1)

RECURSIVE lt(_, _)

is_negative_aborts(v) ==
    IsPanic(lt(v, [bit1b_0 EXCEPT !.signed = TRUE]))

\* is_negative that reads the bit at position size - 1, whatever the signed
\* flag.
is_negative_top_bit(v) == is_set_msb_01(v)

is_negative(v) ==
    lt(v, [bit1b_0 EXCEPT !.signed = TRUE]) = logic1b_1

\* The sign replication of one operand, after the word counts are matched.
\* neg, sign_x and sign_z were read before the padding.
SignFill(v, neg, sign_x, sign_z) ==
    LET v1 == IF neg \/ sign_z
                  THEN [v EXCEPT !.data_01 = FillLeading(@, Len(@))]
                  ELSE v
    IN  IF sign_z \/ sign_x
            THEN [v1 EXCEPT !.data_xz = FillLeading(@, Len(@))]
            ELSE v1

\* The last two assignments of _matched_sign_extend: the size becomes the
\* word count times the word width.
FullSize(v) == [v EXCEPT !.size = Len(v.data_01) * BITS]

\* The pair <<self, right_nu>> after the call, <<Panic, Panic>> on abort.
_matched_sign_extend(self, right) ==
    IF ~self.signed \/ ~right.signed THEN <<Panic, Panic>>
    ELSE IF \/ is_negative_aborts(self) \/ is_negative_aborts(right)
            \/ msb_aborts(self) \/ msb_aborts(right)
            \/ msb_xz_aborts(self) \/ msb_xz_aborts(right)
        THEN <<Panic, Panic>>
    ELSE LET left_neg     == is_negative(self)
             right_neg    == is_negative(right)
             left_sign_x  == ~is_set_msb_01(self) /\ is_set_msb_xz(self)
             right_sign_x == ~is_set_msb_01(right) /\ is_set_msb_xz(right)
             left_sign_z  == is_set_msb_01(self) /\ is_set_msb_xz(self)
             right_sign_z == is_set_msb_01(right) /\ is_set_msb_xz(right)
             m  == _primlit_vec_elmnt_match(self, right)
         IN  <<FullSize(SignFill(m[1], left_neg, left_sign_x, left_sign_z)),
               FullSize(SignFill(m[2], right_neg, right_sign_x, right_sign_z))>>

RECURSIVE AnyWordLess(_, _, _)
\* The comparison loop of lt, from word x down: returns at the first word of
\* l that is smaller than the word of r.
AnyWordLess(l, r, x) ==
    IF x < 1 THEN FALSE
    ELSE IF l[x] < r[x] THEN TRUE
    ELSE AnyWordLess(l, r, x - 1)

\* The comparison of lt on the pair m of extended operands.
LtWords(m) ==
    IF IsPanic(m[1]) THEN Panic
    ELSE IF AnyWordLess(m[1].data_01, m[2].data_01, Len(m[1].data_01))
        THEN logic1b_1
    ELSE logic1b_0

lt(self, right) ==
    IF contains_xz(self) \/ contains_xz(right) THEN logic1b_x
    ELSE IF self.signed # right.signed
        THEN lt([self EXCEPT !.signed = FALSE], [right EXCEPT !.signed = FALSE])
    ELSE IF self.signed
        THEN IF msb_aborts(self) \/ msb_aborts(right) THEN Panic
             ELSE LET left_nu_neg  == is_set_msb_01(self)
                      right_nu_neg == is_set_msb_01(right)
                  IN  IF left_nu_neg /\ ~right_nu_neg THEN logic1b_1
                      ELSE IF ~left_nu_neg /\ right_nu_neg THEN logic1b_0
                      ELSE IF left_nu_neg
                          THEN LtWords(_matched_sign_extend(self, right))
                      ELSE lt([self EXCEPT !.signed = FALSE],
                              [right EXCEPT !.signed = FALSE])
    ELSE LtWords(_matched_zero_extend(self, right))

RECURSIVE AnyWordGreaterEq(_, _, _)
\* AnyWordGreater with >= written for >.
AnyWordGreaterEq(l, r, x) ==
    IF x < 1 THEN FALSE
    ELSE IF l[x] >= r[x] THEN TRUE
    ELSE AnyWordGreaterEq(l, r, x - 1)

RECURSIVE AnyWordGreater(_, _, _)
\* The comparison loop of gt, from word x down: returns at the first word of
\* l that is greater than the word of r.
AnyWordGreater(l, r, x) ==
    IF x < 1 THEN FALSE
    ELSE IF l[x] > r[x] THEN TRUE
    ELSE AnyWordGreater(l, r, x - 1)

\* The comparison of gt on the pair m of extended operands.
GtWords(m) ==
    IF IsPanic(m[1]) THEN Panic
    ELSE IF AnyWordGreater(m[1].data_01, m[2].data_01, Len(m[1].data_01))
        THEN logic1b_1
    ELSE logic1b_0

RECURSIVE gt(_, _)
gt(self, right) ==
    IF contains_xz(self) \/ contains_xz(right) THEN logic1b_x
    ELSE IF self.signed # right.signed
        THEN gt([self EXCEPT !.signed = FALSE], [right EXCEPT !.signed = FALSE])
    ELSE IF self.signed
        THEN IF msb_aborts(self) \/ msb_aborts(right) THEN Panic
             ELSE LET left_nu_neg  == is_set_msb_01(self)
                      right_nu_neg == is_set_msb_01(right)
                  IN  IF left_nu_neg /\ ~right_nu_neg THEN logic1b_0
                      ELSE IF ~left_nu_neg /\ right_nu_neg THEN logic1b_1
                      ELSE GtWords(_matched_sign_extend(self, right))
    ELSE GtWords(_matched_zero_extend(self, right))

\* The comparison of case_eq on the pair m of extended operands; both_xz
\* when both operands contain X/Z.
CaseEqWords(m, both_xz) ==
    IF IsPanic(m[1]) THEN Panic
    ELSE IF both_xz
        THEN IF m[1].data_01 = m[2].data_01 /\ m[1].data_xz = m[2].data_xz
                 THEN bit1b_1
             ELSE bit1b_0
    ELSE IF m[1].data_01 = m[2].data_01 THEN bit1b_1
    ELSE bit1b_0

RECURSIVE case_eq_data01_only(_, _)
\* case_eq without the branch that answers 0 when exactly one operand
\* contains X/Z.
case_eq_data01_only(self, right) ==
    IF self.signed # right.signed
        THEN case_eq_data01_only([self EXCEPT !.signed = FALSE],
                                 [right EXCEPT !.signed = FALSE])
    ELSE CaseEqWords(IF self.signed THEN _matched_sign_extend(self, right)
                     ELSE _matched_zero_extend(self, right),
                     contains_xz(self) /\ contains_xz(right))

RECURSIVE case_eq(_, _)
case_eq(self, right) ==
    IF self.signed # right.signed
        THEN case_eq([self EXCEPT !.signed = FALSE], [right EXCEPT !.signed = FALSE])
    ELSE IF contains_xz(self) # contains_xz(right) THEN bit1b_0
    ELSE CaseEqWords(IF self.signed THEN _matched_sign_extend(self, right)
                     ELSE _matched_zero_extend(self, right),
                     contains_xz(self) /\ contains_xz(right))

is_zero_aborts(v) ==
    IsPanic(case_eq(v, [bit1b_0 EXCEPT !.signed = TRUE]))

is_zero(v) ==
    case_eq(v, [bit1b_0 EXCEPT !.signed = TRUE]) = bit1b_1

\* The four-state copy of the answer c of case_eq.
CaseEqTo4State(c) == IF IsPanic(c) THEN Panic ELSE to_4state(c)

RECURSIVE logical_eq(_, _)
logical_eq(self, right) ==
    IF contains_xz(self) \/ contains_xz(right) THEN logic1b_x
    ELSE IF self.signed # right.signed
        THEN logical_eq([self EXCEPT !.signed = FALSE],
                        [right EXCEPT !.signed = FALSE])
    ELSE CaseEqTo4State(case_eq(self, right))

\* The test "strict == logic1b_1() || equal == logic1b_1()" of le and ge.
StrictOrEqual(strict, equal) ==
    IF IsPanic(strict) \/ IsPanic(equal) THEN Panic
    ELSE IF strict = logic1b_1 \/ equal = logic1b_1 THEN logic1b_1
    ELSE logic1b_0

le(self, right) ==
    IF contains_xz(self) \/ contains_xz(right) THEN logic1b_x
    ELSE StrictOrEqual(lt(self, right), logical_eq(self, right))

ge(self, right) ==
    IF contains_xz(self) \/ contains_xz(right) THEN logic1b_x
    ELSE StrictOrEqual(gt(self, right), logical_eq(self, right))

----------------------------------------------------------------------------
\* Shifts, truncation and rotations.

\* One pass of the inner loop of lsl over the first k words of d: every word
\* is shifted left by one and receives the leading bit of the word below.
ShlWords(d, k) ==
    [y \in 1..Len(d) |->
        IF y > k THEN d[y]
        ELSE shl1(d[y]) + (IF y > 1 /\ leading_zeros(d[y - 1]) = 0 THEN 1 ELSE 0)]

\* One iteration of the outer loop of lsl.
LslStep(v) ==
    LET k       == Len(v.data_01)
        four    == is_4state(v)
        size2   == v.size + 1
        d01     == ShlWords(v.data_01, k)
        dxz     == IF four THEN ShlWords(v.data_xz, k) ELSE v.data_xz
        leading_one    == leading_zeros(v.data_01[k]) = 0
        leading_one_xz == four /\ leading_zeros(v.data_xz[k]) = 0
    IN  IF four /\ Len(v.data_xz) < k THEN Panic
        ELSE IF leading_one /\ leading_one_xz
            THEN [v EXCEPT !.size = size2, !.data_01 = d01 \o <<1>>,
                           !.data_xz = dxz \o <<1>>]
        ELSE IF leading_one
            THEN [v EXCEPT !.size = size2, !.data_01 = d01 \o <<1>>,
                           !.data_xz = IF four THEN dxz \o <<0>> ELSE dxz]
        ELSE IF leading_one_xz
            THEN [v EXCEPT !.size = size2, !.data_01 = d01 \o <<0>>,
                           !.data_xz = dxz \o <<1>>]
        ELSE IF v.signed /\ size2 > BITS * k
            THEN [v EXCEPT !.size = size2, !.data_01 = d01 \o <<0>>,
                           !.data_xz = IF four THEN dxz \o <<0>> ELSE dxz]
        ELSE [v EXCEPT !.size = size2, !.data_01 = d01, !.data_xz = dxz]

RECURSIVE lsl(_, _)
lsl(self, k) ==
    IF k = 0 \/ IsPanic(self) THEN self ELSE lsl(LslStep(self), k - 1)

\* One pass of the inner loop of lsr over the first k words of d: every word
\* is shifted right by one and receives the trailing bit of the word above.
ShrWords(d, k) ==
    [y \in 1..Len(d) |->
        IF y > k THEN d[y]
        ELSE (d[y] \div 2)
             + (IF y < k /\ trailing_zeros(d[y + 1]) = 0 THEN Pow2(BITS - 1) ELSE 0)]

\* One iteration of the outer loop of lsr.
LsrStep(v) ==
    LET k == Len(v.data_01)
    IN  IF is_4state(v) /\ Len(v.data_xz) < k THEN Panic
        ELSE [v EXCEPT !.data_01 = ShrWords(@, k),
                       !.data_xz = IF is_4state(v) THEN ShrWords(@, k) ELSE @]

RECURSIVE lsr(_, _)
lsr(self, k) ==
    IF k = 0 \/ IsPanic(self) THEN self ELSE lsr(LsrStep(self), k - 1)

RECURSIVE ClearLeading(_, _, _)
\* The masking loop of _truncate on the last word: for x from hi down to lo,
\* bit x - 1 is cleared when it is the most significant set bit.
ClearLeading(w, x, lo) ==
    IF x < lo THEN w
    ELSE IF leading_zeros(w) = BITS - x
        THEN ClearLeading(w - Pow2(x - 1), x - 1, lo)
    ELSE ClearLeading(w, x - 1, lo)

\* _truncate on one of the two vectors; << >> when the element count to
\* remove is negative (the subtraction overflows, or, wrapped, the removal
\* loop runs off the vector).
TruncateWords(d, size) ==
    LET elmnts_to_be_rm == IF size % BITS = 0
                               THEN Len(d) - size \div BITS
                               ELSE Len(d) - (size \div BITS) - 1
        bits_to_be_rm   == IF size % BITS = 0 THEN 0 ELSE BITS - (size % BITS)
        kept            == SubSeq(d, 1, Len(d) - elmnts_to_be_rm)
    IN  IF elmnts_to_be_rm < 0 THEN << >>
        ELSE IF bits_to_be_rm = 0 THEN kept
        ELSE IF Len(kept) = 0 THEN << >>
        ELSE [kept EXCEPT ![Len(kept)] =
                  ClearLeading(@, BITS, BITS - bits_to_be_rm + 1)]

_truncate(self, size) ==
    IF IsPanic(self) THEN Panic
    ELSE IF size = 0 THEN Panic
    ELSE IF self.size >= size
        THEN LET d01 == TruncateWords(self.data_01, size)
                 dxz == IF is_4state(self) THEN TruncateWords(self.data_xz, size)
                        ELSE self.data_xz
             IN  IF d01 = << >> \/ dxz = << >> THEN Panic
                 ELSE [self EXCEPT !.data_01 = d01, !.data_xz = dxz, !.size = size]
    ELSE Panic

\* word + inc on a host word; -1 when the sum overflows in a build with
\* overflow checks, the wrapped sum otherwise.
checked_add(w, inc) ==
    IF w + inc <= UsizeMax THEN w + inc
    ELSE IF overflow_checks THEN -1
    ELSE (w + inc) % WordMod

\* The end of an iteration of rol: the bit that left at the top enters the
\* shifted and truncated value t at position 0.
RolCarry(t, leading_one, leading_one_xz) ==
    IF IsPanic(t) THEN Panic
    ELSE LET w0 == IF leading_one THEN checked_add(t.data_01[1], 1) ELSE t.data_01[1]
             x0 == IF leading_one_xz THEN checked_add(t.data_xz[1], 1) ELSE 0
         IN  IF w0 = -1 \/ x0 = -1 THEN Panic
             ELSE [t EXCEPT !.data_01[1] = w0,
                            !.data_xz = IF leading_one_xz THEN [@ EXCEPT ![1] = x0]
                                        ELSE @]

\* One iteration of the loop of rol.
RolStep(v) ==
    IF msb_aborts(v) \/ msb_xz_aborts(v) THEN Panic
    ELSE RolCarry(_truncate(lsl(v, 1), v.size), is_set_msb_01(v), is_set_msb_xz(v))

RECURSIVE rol(_, _)
rol(self, k) ==
    IF k = 0 \/ IsPanic(self) THEN self ELSE rol(RolStep(self), k - 1)

\* RorCarry that enters the bit at the top of the host word.
RorCarryWordTop(s, trailing_one, trailing_one_xz, last_index, msb) ==
    LET w  == IF trailing_one THEN checked_add(s.data_01[last_index], Pow2(BITS - 1))
              ELSE 0
        x  == IF trailing_one_xz
                  THEN IF last_index > Len(s.data_xz) THEN -1
                       ELSE checked_add(s.data_xz[last_index], Pow2(BITS - 1))
              ELSE 0
    IN  IF IsPanic(s) THEN Panic
        ELSE IF w = -1 \/ x = -1 THEN Panic
        ELSE [s EXCEPT !.data_01 = IF trailing_one THEN [@ EXCEPT ![last_index] = w]
                                   ELSE @,
                       !.data_xz = IF trailing_one_xz THEN [@ EXCEPT ![last_index] = x]
                                   ELSE @]

\* The end of an iteration of ror: the bit that left at the bottom enters
\* the shifted value s at position msb - 1 of the last word.
RorCarry(s, trailing_one, trailing_one_xz, last_index, msb) ==
    LET w  == IF trailing_one THEN checked_add(s.data_01[last_index], Pow2(msb - 1))
              ELSE 0
        x  == IF trailing_one_xz
                  THEN IF last_index > Len(s.data_xz) THEN -1
                       ELSE checked_add(s.data_xz[last_index], Pow2(msb - 1))
              ELSE 0
    IN  IF IsPanic(s) THEN Panic
        ELSE IF w = -1 \/ x = -1 THEN Panic
        ELSE [s EXCEPT !.data_01 = IF trailing_one THEN [@ EXCEPT ![last_index] = w]
                                   ELSE @,
                       !.data_xz = IF trailing_one_xz THEN [@ EXCEPT ![last_index] = x]
                                   ELSE @]

\* One iteration of the loop of ror; last_index and msb are read once,
\* before the loop.
RorStep(v, last_index, msb) ==
    RorCarry(lsr(v, 1),
             trailing_zeros(v.data_01[1]) = 0,
             is_4state(v) /\ trailing_zeros(v.data_xz[1]) = 0,
             last_index, msb)

RECURSIVE RorLoop(_, _, _, _)
RorLoop(v, k, last_index, msb) ==
    IF k = 0 \/ IsPanic(v) THEN v
    ELSE RorLoop(RorStep(v, last_index, msb), k - 1, last_index, msb)

ror(self, k) ==
    IF IsPanic(self) THEN Panic
    ELSE RorLoop(self, k, Len(self.data_01),
                 IF self.size % BITS = 0 THEN BITS ELSE self.size % BITS)

\* InvStep that leaves the declared most significant position as it is when
\* it carries X or Z.
InvStepKeepZ(v, last_index, first_elmnt_bits) ==
    LET remaining_bits == BITS - first_elmnt_bits
        top   == v.data_01[last_index]
        isset == leading_zeros(top) = remaining_bits
        xzset == is_4state(v)
                 /\ leading_zeros(v.data_xz[last_index]) = remaining_bits
        w == IF xzset THEN top
             ELSE IF isset THEN top - Pow2(first_elmnt_bits - 1)
             ELSE checked_add(top, Pow2(first_elmnt_bits - 1))
    IN  IF is_4state(v) /\ Len(v.data_xz) < last_index THEN Panic
        ELSE IF w = -1 THEN Panic
        ELSE ror([v EXCEPT !.data_01[last_index] = w], 1)

\* One iteration of the loop of inv: the declared most significant position
\* is flipped (cleared when it carries X or Z), then the value is rotated
\* right by one.
InvStep(v, last_index, first_elmnt_bits) ==
    LET remaining_bits == BITS - first_elmnt_bits
        top   == v.data_01[last_index]
        isset == leading_zeros(top) = remaining_bits
        xzset == is_4state(v)
                 /\ leading_zeros(v.data_xz[last_index]) = remaining_bits
        w == IF xzset
                 THEN IF isset THEN top - Pow2(first_elmnt_bits - 1) ELSE top
             ELSE IF isset THEN top - Pow2(first_elmnt_bits - 1)
             ELSE checked_add(top, Pow2(first_elmnt_bits - 1))
    IN  IF is_4state(v) /\ Len(v.data_xz) < last_index THEN Panic
        ELSE IF w = -1 THEN Panic
        ELSE ror([v EXCEPT !.data_01[last_index] = w], 1)

RECURSIVE InvLoop(_, _, _, _)
InvLoop(v, k, last_index, first_elmnt_bits) ==
    IF k = 0 \/ IsPanic(v) THEN v
    ELSE InvLoop(InvStep(v, last_index, first_elmnt_bits), k - 1,
                 last_index, first_elmnt_bits)

inv(self) ==
    IF IsPanic(self) THEN Panic
    ELSE InvLoop(self, self.size, Len(self.data_01),
                 IF self.size % BITS = 0 THEN BITS ELSE self.size % BITS)

----------------------------------------------------------------------------
\* Wildcard equality.

\* The body of the loop of wildcard_eq before the rotations: when the most
\* significant position of right is X or Z, it is overwritten with the
\* state of the most significant position of left.
WildcardBit(left, right, last_index) ==
    IF \/ msb_aborts(left) \/ msb_xz_aborts(left)
       \/ msb_aborts(right) \/ msb_xz_aborts(right)
        THEN Panic
    ELSE LET top == Pow2(BITS - 1)
             left_msb_x  == ~is_set_msb_01(left) /\ is_set_msb_xz(left)
             left_msb_z  == is_set_msb_01(left) /\ is_set_msb_xz(left)
             left_msb_0  == ~is_set_msb_01(left) /\ ~is_set_msb_xz(left)
             left_msb_1  == is_set_msb_01(left) /\ ~is_set_msb_xz(left)
             right_msb_x == ~is_set_msb_01(right) /\ is_set_msb_xz(right)
             right_msb_z == is_set_msb_01(right) /\ is_set_msb_xz(right)
         IN  IF right_msb_x
                 THEN IF left_msb_z
                          THEN [right EXCEPT !.data_01[last_index] = @ + top]
                      ELSE IF left_msb_1
                          THEN [right EXCEPT !.data_01[last_index] = @ + top,
                                             !.data_xz[last_index] = @ - top]
                      ELSE IF left_msb_0
                          THEN [right EXCEPT !.data_xz[last_index] = @ - top]
                      ELSE right
             ELSE IF right_msb_z
                 THEN IF left_msb_x
                          THEN [right EXCEPT !.data_01[last_index] = @ - top]
                      ELSE IF left_msb_1
                          THEN [right EXCEPT !.data_xz[last_index] = @ - top]
                      ELSE IF left_msb_0
                          THEN [right EXCEPT !.data_01[last_index] = @ - top,
                                             !.data_xz[last_index] = @ - top]
                      ELSE right
             ELSE right

RECURSIVE WildcardLoop(_, _, _, _)
\* k iterations of the loop of wildcard_eq: the pair <<left_nu, right_nu>>.
WildcardLoop(left, right, k, last_index) ==
    IF IsPanic(left) \/ IsPanic(right) THEN <<Panic, Panic>>
    ELSE IF k = 0 THEN <<left, right>>
    ELSE WildcardLoop(rol(left, 1),
                      rol(WildcardBit(left, right, last_index), 1),
                      k - 1, last_index)

\* The final comparison of wildcard_eq on the pair p left by the loop.
WildcardCompare(p) ==
    IF IsPanic(p[1]) THEN Panic ELSE logical_eq(p[1], p[2])

\* wildcard_eq on the pair m of extended operands.
WildcardExtended(m) ==
    IF IsPanic(m[1]) THEN Panic
    ELSE WildcardCompare(
             WildcardLoop(m[1], m[2], m[1].size, Len(m[2].data_01)))

\* wildcard_eq in which X and Z of the left operand match X and Z of the
\* right one, as in case_eq.
wildcard_eq_matching_xz(self, right) == case_eq(self, right)

RECURSIVE wildcard_eq(_, _)
wildcard_eq(self, right) ==
    IF self.signed # right.signed
        THEN wildcard_eq([self EXCEPT !.signed = FALSE],
                         [right EXCEPT !.signed = FALSE])
    ELSE IF ~contains_xz(right) THEN logical_eq(self, right)
    ELSE WildcardExtended(IF self.signed THEN _matched_sign_extend(self, right)
                          ELSE _matched_zero_extend(self, right))

----------------------------------------------------------------------------
\* Width canonicalisation.

RECURSIVE DropZeroWords(_, _)
\* The loop "for _x in 0..len: remove the last word if it is zero".
DropZeroWords(d, k) ==
    IF k = 0 \/ Len(d) = 0 THEN d
    ELSE IF Last(d) = 0 THEN DropZeroWords(SubSeq(d, 1, Len(d) - 1), k - 1)
    ELSE d

RECURSIVE StripSign(_, _, _, _)
\* The nested loops of the negative branch of _minimum_width at word x:
\* <<data_01, size, vec_elements_to_rm>> when the minimum is found, << >>
\* when the exponent BITS - pre_leading - 1 underflows with overflow checks.
StripSign(d, size, x, rm) ==
    IF x < 1 THEN <<d, size, rm>>
    ELSE LET pre_leading == leading_zeros(d[x])
         IN  IF pre_leading = BITS
                 THEN IF overflow_checks THEN << >> ELSE <<d, size, rm>>
             ELSE LET minimized_value == d[x] - Pow2(BITS - pre_leading - 1)
                      post_leading    == leading_zeros(minimized_value)
                  IN  IF post_leading = BITS
                         /\ (x = 1 \/ leading_zeros(d[x - 1]) # 0)
                          THEN <<d, size, rm>>
                      ELSE IF post_leading # pre_leading + 1
                          THEN <<d, size, rm>>
                      ELSE IF post_leading = BITS
                          THEN StripSign([d EXCEPT ![x] = minimized_value],
                                         size - 1, x - 1, rm + 1)
                      ELSE StripSign([d EXCEPT ![x] = minimized_value],
                                     size - 1, x, rm)

RECURSIVE RemoveAt(_, _, _)
\* k times Vec::remove(i): the element at index i is taken out and the
\* elements above it move down.
RemoveAt(d, i, k) ==
    IF k = 0 THEN d
    ELSE RemoveAt(SubSeq(d, 1, i - 1) \o SubSeq(d, i + 1, Len(d)), i, k - 1)

\* The last step of _minimum_width: data_xz is shortened to the word count
\* of data_01 by removing at index data_01.len() - 1.
ShrinkXZ(v) ==
    IF is_4state(v) /\ Len(v.data_01) < Len(v.data_xz)
        THEN [v EXCEPT !.data_xz =
                  RemoveAt(@, Len(v.data_01), Len(@) - Len(v.data_01))]
    ELSE v

_minimum_width(self) ==
    IF IsPanic(self) THEN Panic
    ELSE IF ~self.signed
        THEN IF is_zero(self)
                 THEN ShrinkXZ([self EXCEPT !.data_01 = <<0>>, !.size = 1])
             ELSE LET d == DropZeroWords(self.data_01, Len(self.data_01))
                  IN  IF Len(d) = 0 THEN Panic
                      ELSE ShrinkXZ([self EXCEPT
                               !.data_01 = d,
                               !.size = (BITS - leading_zeros(Last(d)))
                                        + (Len(d) - 1) * BITS])
    ELSE IF is_negative_aborts(self) THEN Panic
    ELSE IF is_negative(self)
        THEN LET r == StripSign(self.data_01, self.size, Len(self.data_01), 0)
             IN  IF r = << >> THEN Panic
                 ELSE ShrinkXZ([self EXCEPT
                          !.data_01 = SubSeq(r[1], 1, Len(r[1]) - r[3]),
                          !.size = r[2]])
    ELSE IF is_zero_aborts(self) THEN Panic
    ELSE IF is_zero(self)
        THEN ShrinkXZ([self EXCEPT !.data_01 = <<0>>, !.size = 1])
    ELSE LET d  == DropZeroWords(self.data_01, Len(self.data_01))
             d2 == IF leading_zeros(Last(d)) = 0 THEN d \o <<0>> ELSE d
         IN  IF Len(d) = 0 THEN Panic
             ELSE ShrinkXZ([self EXCEPT
                      !.data_01 = d2,
                      !.size = (BITS - leading_zeros(Last(d2)) + 1)
                               + (Len(d2) - 1) * BITS])

usize_to_primlit(value) ==
    _minimum_width([data_01 |-> <<value>>, data_xz |-> None,
                    size |-> BITS, signed |-> TRUE])

----------------------------------------------------------------------------
\* Concatenation, addition, multiplication, negation.

RECURSIVE add_primlit(_, _)

\* The statements of cat after the shift: ret0 is self shifted left by
\* right.size.
CatShifted(ret0, self, right) ==
    IF IsPanic(ret0) THEN Panic
    ELSE IF (is_4state(ret0) \/ is_4state(right))
            /\ ~(is_4state(ret0) /\ is_4state(right))
        THEN Panic      \* unwrap() of a data_xz that is None
    ELSE LET left_xz  == [data_01 |-> ret0.data_xz, data_xz |-> None,
                          size |-> ret0.size, signed |-> FALSE]
             right_xz == [data_01 |-> right.data_xz, data_xz |-> None,
                          size |-> right.size, signed |-> FALSE]
             xz  == IF is_4state(ret0)
                        THEN _unsigned_primlit_add(left_xz, right_xz).data_01
                    ELSE ret0.data_xz
         IN  [_unsigned_primlit_add(ret0, right) EXCEPT
                 !.size = self.size + right.size,
                 !.data_xz = xz]

cat(self, right) ==
    IF IsPanic(self) \/ IsPanic(right) THEN Panic
    ELSE CatShifted(lsl(self, right.size), self, right)

\* The all-X result of the poisoned paths: a one-bit X, then num_bits - 1
\* concatenations of a one-bit X.
RECURSIVE CatX(_, _, _)
CatX(ret, x_primlit, k) ==
    IF k <= 0 \/ IsPanic(ret) THEN ret
    ELSE CatX(cat(ret, x_primlit), x_primlit, k - 1)

\* AllX with one concatenation too many.
AllXOneMore(final_num_bits, signed) ==
    LET x_primlit == [data_01 |-> <<0>>, data_xz |-> <<1>>,
                      signed |-> signed, size |-> 1]
    IN  CatX(x_primlit, x_primlit, final_num_bits)

\* AllX that concatenates Z (data_01 bit 1, data_xz bit 1) to the first X.
AllXThenZ(final_num_bits, signed) ==
    LET x_primlit == [data_01 |-> <<0>>, data_xz |-> <<1>>,
                      signed |-> signed, size |-> 1]
        z_primlit == [data_01 |-> <<1>>, data_xz |-> <<1>>,
                      signed |-> signed, size |-> 1]
    IN  CatX(x_primlit, z_primlit, final_num_bits - 1)

AllX(final_num_bits, signed) ==
    LET x_primlit == [data_01 |-> <<0>>, data_xz |-> <<1>>,
                      signed |-> signed, size |-> 1]
    IN  CatX(x_primlit, x_primlit, final_num_bits - 1)

\* The zero of elmnts_sign_extension words that add_primlit and mult hand
\* to _matched_sign_extend to widen their operands.
matched_prim_lit(elmnts_sign_extension) ==
    [data_01 |-> Zeros(elmnts_sign_extension), data_xz |-> None,
     size |-> elmnts_sign_extension * BITS, signed |-> TRUE]

\* "if ret.is_4state() { ret.data_xz = ret.to_4state().data_xz; }" at the
\* end of add_primlit, mult and negate.
ResetXZ(ret) ==
    IF IsPanic(ret) THEN Panic
    ELSE IF is_4state(ret) THEN [ret EXCEPT !.data_xz = to_4state(ret).data_xz]
    ELSE ret

\* The second of the two calls of _matched_sign_extend in add_primlit and
\* mult: m1 is the pair after the first call, m2 the pair after the second.
SignExtendRight(left, m2) ==
    IF IsPanic(m2[1]) THEN <<Panic, Panic>> ELSE <<left, m2[1]>>

SignExtendLeft(m1, right) ==
    IF IsPanic(m1[1]) THEN <<Panic, Panic>>
    ELSE SignExtendRight(m1[1], _matched_sign_extend(right, m1[2]))

\* Both operands sign-extended to elmnts_sign_extension words.
SignExtendBoth(left, right, elmnts_sign_extension) ==
    SignExtendLeft(
        _matched_sign_extend(left, matched_prim_lit(elmnts_sign_extension)),
        right)

\* The resizing of the sum ret in add_primlit.
AddResize(ret, final_num_bits) ==
    IF IsPanic(ret) THEN Panic
    ELSE IF ret.signed THEN _truncate(ret, final_num_bits)
    ELSE [ret EXCEPT !.size = final_num_bits,
                     !.data_01 = IF Len(@) * BITS < final_num_bits
                                     THEN @ \o <<0>> ELSE @]

\* The sum of the pair p of prepared operands and what follows it.
AddPair(p, final_num_bits) ==
    IF IsPanic(p[1]) THEN Panic
    ELSE ResetXZ(AddResize(_unsigned_primlit_add(p[1], p[2]), final_num_bits))

\* add_primlit once both operands have the same state count.
AddSameState(ret, right) ==
    IF ~contains_xz(ret) /\ ~contains_xz(right)
        THEN LET final_num_bits == IF ret.size > right.size THEN ret.size + 1
                                   ELSE right.size + 1
                 elmnts_sign_extension ==
                     IF ret.size > right.size THEN Len(ret.data_01) + 1
                     ELSE Len(right.data_01) + 1
             IN  AddPair(IF ret.signed = FALSE \/ right.signed = FALSE
                             THEN <<[ret EXCEPT !.signed = FALSE], right>>
                         ELSE SignExtendBoth(ret, right, elmnts_sign_extension),
                         final_num_bits)
    ELSE LET size1 == IF ret.size < right.size THEN right.size ELSE ret.size
         IN  AllX(size1 + 1, ~(ret.signed = FALSE \/ right.signed = FALSE))

add_primlit(self, right) ==
    IF IsPanic(self) \/ IsPanic(right) THEN Panic
    ELSE AddSameState(
             IF is_4state(self) # is_4state(right) /\ ~is_4state(self)
                 THEN to_4state(self) ELSE self,
             IF is_4state(self) # is_4state(right) /\ is_4state(self)
                 THEN to_4state(right) ELSE right)

\* impl Add<usize>
add_usize(self, value) == add_primlit(self, usize_to_primlit(value))

\* The scan of mul_unsigned over the bits of right_nu from bit x on: the list
\* add_ver of shifted copies of left_nu, one for every set bit; left is
\* left_nu as iteration x pushes it.
RECURSIVE ShiftedCopies(_, _, _, _)
ShiftedCopies(left, right, x, size) ==
    IF x >= size THEN << >>
    ELSE IF IsPanic(left) \/ IsPanic(right) THEN <<Panic>>
    ELSE (IF trailing_zeros(right.data_01[1]) = 0 THEN <<left>> ELSE << >>)
         \o ShiftedCopies(lsl(left, 1), lsr(right, 1), x + 1, size)

RECURSIVE SumAll(_, _, _)
SumAll(ret, add_ver, y) ==
    IF y > Len(add_ver) THEN ret
    ELSE SumAll(add_primlit(ret, add_ver[y]), add_ver, y + 1)

mul_unsigned(self, right) ==
    SumAll([data_01 |-> <<0>>, data_xz |-> None, signed |-> FALSE, size |-> 1],
           ShiftedCopies(self, right, 0, right.size), 1)

\* The resizing of the product ret in mult.
MultResize(ret, final_num_bits) ==
    IF IsPanic(ret) THEN Panic
    ELSE IF ret.size > final_num_bits THEN _truncate(ret, final_num_bits)
    ELSE [ret EXCEPT !.size = final_num_bits]

\* "ret.signed = left_nu.signed && right_nu.signed" and what follows it.
MultSign(ret, signed) ==
    IF IsPanic(ret) THEN Panic ELSE ResetXZ([ret EXCEPT !.signed = signed])

\* The product of the pair p of prepared operands and what follows it.
MultPair(p, final_num_bits) ==
    IF IsPanic(p[1]) THEN Panic
    ELSE MultSign(MultResize(mul_unsigned(p[1], p[2]), final_num_bits),
                  p[1].signed /\ p[2].signed)

\* mult once both operands have the same state count.
MultSameState(left, right) ==
    IF ~contains_xz(left) /\ ~contains_xz(right)
        THEN MultPair(IF left.signed /\ right.signed
                          THEN SignExtendBoth(left, right,
                                   Len(left.data_01) + Len(right.data_01))
                      ELSE <<left, right>>,
                      left.size + right.size)
    ELSE AllX(left.size + right.size,
              ~(left.signed = FALSE \/ right.signed = FALSE))

mult(self, right) ==
    IF IsPanic(self) \/ IsPanic(right) THEN Panic
    ELSE MultSameState(
             IF is_4state(self) # is_4state(right) /\ ~is_4state(self)
                 THEN to_4state(self) ELSE self,
             IF is_4state(self) # is_4state(right) /\ is_4state(self)
                 THEN to_4state(right) ELSE right)

\* The size that negate gives the sum ret before it is minimised.
NegateResize(ret, from_negative) ==
    IF IsPanic(ret) THEN Panic
    ELSE LET last == Len(ret.data_01)
             top  == ret.data_01[last]
         IN  IF from_negative
                 THEN [ret EXCEPT
                          !.size = (BITS - leading_zeros(top) + 1)
                                   + (last - 1) * BITS,
                          !.data_01 = IF leading_zeros(top) = 0
                                          THEN @ \o <<0>> ELSE @]
             ELSE [ret EXCEPT
                      !.size = (BITS - leading_zeros(top)) + (last - 1) * BITS]

negate(self) ==
    IF IsPanic(self) \/ is_zero_aborts(self) THEN Panic
    ELSE IF is_zero(self) THEN self
    ELSE IF ~self.signed THEN Panic
    ELSE IF is_negative_aborts(self) THEN Panic
    ELSE ResetXZ(_minimum_width(
             NegateResize(add_primlit(inv(self), usize_to_primlit(1)),
                          is_negative(self))))

----------------------------------------------------------------------------
\* Parameter declarations (src/src/sv_port.rs).  A string is the sequence of
\* its characters.  i64 and u64 are scaled down to WIDE bits; the sentinel
\* 404 fits in them.

\* Option<T>::None and Some(x) of the parameter resolver.
Nothing == << >>

Some(x) == << x >>

I64Min == -Pow2(WIDE - 1)

I64Max == Pow2(WIDE - 1) - 1

U64Mod == Pow2(WIDE)

U64Max == U64Mod - 1

\* An i64 result that left the range, wrapped as a build without overflow
\* checks wraps it.
WrapI64(x) == ((x - I64Min) % U64Mod) + I64Min

DecimalDigits == <<"0", "1", "2", "3", "4", "5", "6", "7", "8", "9">>

IsDigit(c) == \E d \in 1..10 : DecimalDigits[d] = c

DigitValue(c) == (CHOOSE d \in 1..10 : DecimalDigits[d] = c) - 1

\* The decimal text of a number, as it stands in the source file.
RECURSIVE DecimalText(_)
DecimalText(x) ==
    IF x < 0 THEN <<"-">> \o DecimalText(-x)
    ELSE IF x < 10 THEN <<DecimalDigits[x + 1]>>
    ELSE Append(DecimalText(x \div 10), DecimalDigits[(x % 10) + 1])

\* The digit loop of str::parse from character k on: acc is multiplied by
\* ten and the digit is added (subtracted after a minus sign), with a check
\* of the range at every step.  Nothing is Err.
RECURSIVE ParseDigits(_, _, _, _, _, _)
ParseDigits(s, k, acc, negative, lo, hi) ==
    IF k > Len(s) THEN Some(acc)
    ELSE IF ~IsDigit(s[k]) THEN Nothing
    ELSE IF 10 * acc < lo \/ 10 * acc > hi THEN Nothing
    ELSE IF negative /\ 10 * acc - DigitValue(s[k]) < lo THEN Nothing
    ELSE IF ~negative /\ 10 * acc + DigitValue(s[k]) > hi THEN Nothing
    ELSE ParseDigits(s, k + 1,
                     IF negative THEN 10 * acc - DigitValue(s[k])
                     ELSE 10 * acc + DigitValue(s[k]),
                     negative, lo, hi)

\* str::parse::<i64>: an optional sign, then at least one digit.
ParseI64(s) ==
    IF Len(s) = 0 THEN Nothing
    ELSE IF s[1] \in {"+", "-"}
    THEN IF Len(s) = 1 THEN Nothing
         ELSE ParseDigits(s, 2, 0, s[1] = "-", I64Min, I64Max)
    ELSE ParseDigits(s, 1, 0, FALSE, I64Min, I64Max)

\* str::parse::<u64>: an optional plus sign, then at least one digit.
ParseU64(s) ==
    IF Len(s) = 0 THEN Nothing
    ELSE IF s[1] = "+"
    THEN IF Len(s) = 1 THEN Nothing ELSE ParseDigits(s, 2, 0, FALSE, 0, U64Max)
    ELSE ParseDigits(s, 1, 0, FALSE, 0, U64Max)

\* What a function of the resolver hands back: value when it returns,
\* abort when it does not (panic!, unreachable!, unwrap() on None or Err,
\* arithmetic overflow in a build with overflow checks).
Returns(x) == [abort |-> FALSE, value |-> x]

Aborts == [abort |-> TRUE, value |-> Nothing]

\* "res.abs() as u64 + 1" for the difference res of the two bounds.
DimWidth(r) == (IF r < 0 THEN (-r) % U64Mod ELSE r) + 1

\* "nu_bits = res.abs() as u64 + 1" or "nu_bits = nu_bits * (...)".
DimFold(nu_bits, r) ==
    IF nu_bits = 0 THEN DimWidth(r) ELSE nu_bits * DimWidth(r)

RECURSIVE DimLoop(_, _, _, _)
RECURSIVE DimLoopParsed(_, _, _, _, _)

\* The arm "(Ok(left_num), Ok(right_num))" of the loop for the difference
\* diff of the two bounds, taken without a limit: the subtraction, abs()
\* and the multiplication leave the range of their type on some inputs.
DimLoopParsed(dims, k, nu_bits, checks, diff) ==
    IF checks /\ (diff < I64Min \/ diff > I64Max) THEN Aborts
    ELSE IF checks /\ WrapI64(diff) = I64Min THEN Aborts
    ELSE IF checks /\ DimFold(nu_bits, WrapI64(diff)) > U64Max THEN Aborts
    ELSE DimLoop(dims, k + 1, DimFold(nu_bits, WrapI64(diff)) % U64Mod, checks)

\* The loop of port_parameter_bits_ansi over the reversed dimensions from
\* dimension k on; checks is TRUE in a build with overflow checks.
DimLoop(dims, k, nu_bits, checks) ==
    IF k > Len(dims) THEN Returns(Some(nu_bits))
    ELSE IF ParseI64(dims[k][1]) = Nothing \/ ParseI64(dims[k][2]) = Nothing
    THEN Returns(Some(404))
    ELSE DimLoopParsed(dims, k, nu_bits, checks,
                       ParseI64(dims[k][1])[1] - ParseI64(dims[k][2])[1])

\* Vec::reverse
Reverse(s) == [i \in 1..Len(s) |-> s[Len(s) + 1 - i]]

\* A node of the syntax tree of the default expression, as far as the
\* resolver looks at it: node is the kind of the node, token the text of
\* its base or operator, size the text of its Size child (empty when it has
\* none), len the number of characters get_string returns for it.
Node(kind, token, size, len) ==
    [node |-> kind, token |-> token, size |-> size, len |-> len]

IntegralNumber == {"UnsignedNumber", "DecimalNumber", "BinaryNumber", "HexNumber",
                   "OctalNumber"}

\* The node is of kind k, or has a child of kind k that no other node of
\* the expression precedes.
IsA(x, k) ==
    CASE k = "Number" -> x.node \in IntegralNumber \cup {"RealNumber"}
      [] k = "IntegralNumber" -> x.node \in IntegralNumber
      [] k = "DecimalNumber" -> x.node \in {"UnsignedNumber", "DecimalNumber"}
      [] k = "Size" -> x.size # << >>
      [] OTHER -> x.node = k

\* unwrap_node!(p, kinds...): the first node, in the order of the traversal,
\* that is of one of the kinds; Nothing when there is none.
RECURSIVE UnwrapFrom(_, _, _)
UnwrapFrom(p, k, kinds) ==
    IF k > Len(p) THEN Nothing
    ELSE IF \E kind \in kinds : IsA(p[k], kind) THEN Some(p[k])
    ELSE UnwrapFrom(p, k + 1, kinds)

unwrap_node(p, kinds) == UnwrapFrom(p, 1, kinds)

\* The first node is of kind k.
Found(r, k) == r # Nothing /\ IsA(r[1], k)

port_parameter_check_default_ansi(p) == Len(p) > 0

parameter_resolver_needed_ansi(p) ==
    unwrap_node(p, {"ConstantFunctionCall", "BinaryOperator",
                    "ConstantConcatenation", "ConditionalExpression"}) # Nothing

\* The arms of the match of parameter_datatype_resolver_ansi on the first
\* literal d of the expression.
DatatypeResolved(p, d) ==
    CASE Found(d, "IntegralNumber") ->
            IF unwrap_node(p, {"RealNumber"}) # Nothing THEN "Real" ELSE "Logic"
      [] Found(d, "RealNumber") -> "Real"
      [] Found(d, "TimeLiteral") ->
            IF Found(unwrap_node(p, {"RealNumber", "IntegralNumber"}), "RealNumber")
            THEN "Real"
            ELSE IF Found(unwrap_node(p, {"RealNumber", "IntegralNumber"}),
                          "IntegralNumber")
            THEN "Logic"
            ELSE "Time"
      [] Found(d, "UnbasedUnsizedLiteral") ->
            IF Found(unwrap_node(p, {"RealNumber", "IntegralNumber"}), "RealNumber")
            THEN "Real"
            ELSE IF Found(unwrap_node(p, {"RealNumber", "IntegralNumber"}),
                          "IntegralNumber")
            THEN "Logic"
            ELSE "Bit"
      [] Found(d, "StringLiteral") -> "String"
      [] OTHER -> "Unsupported"

parameter_datatype_resolver_ansi(p) ==
    DatatypeResolved(p, unwrap_node(p, {"Number", "TimeLiteral",
                                        "UnbasedUnsizedLiteral", "StringLiteral"}))

\* The base token that keeps the answer Signed for a number of this kind.
SignedBase(kind) ==
    CASE kind = "BinaryNumber" -> "'sb"
      [] kind = "HexNumber" -> "'sh"
      [] kind = "OctalNumber" -> "'so"
      [] OTHER -> "'sd"

\* The operators that make the answer of the signedness resolver Unsigned.
UnsignedOperators ==
    {"&", "~&", "|", "~|", "^", "~^", "<", "<=", ">", ">=", "==", "=!"}

\* The loop "for sub_node in node" of parameter_signedness_resolver_ansi
\* from node k on; the answer is Signed when no node ends the loop.
RECURSIVE SignednessLoop(_, _)
SignednessLoop(p, k) ==
    IF k > Len(p) THEN Some("Signed")
    ELSE IF p[k].node \in {"BinaryNumber", "HexNumber", "OctalNumber"}
            /\ p[k].token # SignedBase(p[k].node)
    THEN Some("Unsigned")
    ELSE IF p[k].node = "RealNumber" THEN Nothing
    ELSE IF p[k].node \in {"TimeLiteral", "UnbasedUnsizedLiteral"}
    THEN Some("Unsigned")
    ELSE IF p[k].node = "BinaryOperator" /\ p[k].token \in UnsignedOperators
    THEN Some("Unsigned")
    ELSE SignednessLoop(p, k + 1)

parameter_signedness_resolver_ansi(p, datatype) ==
    IF datatype = Some("String") THEN Nothing ELSE SignednessLoop(p, 1)

\* The data types that port_parameter_datatype_ansi reads off a type node of
\* the common data.
TypeNodes ==
    {"Logic", "Reg", "Bit", "Byte", "Shortint", "Int", "Longint", "Integer",
     "Time", "Shortreal", "Realtime", "Real", "Class", "TypeRef"}

\* The last arm of the first match of port_parameter_datatype_ansi on a
\* parameter with a default: the type comes from the default expression.
DatatypeOfDefault(p) ==
    IF parameter_resolver_needed_ansi(p)
    THEN IF unwrap_node(p, {"BinaryOperator"}) # Nothing
         THEN <<Some(parameter_datatype_resolver_ansi(p)), TRUE>>
         ELSE <<Some("Unsupported"), TRUE>>
    ELSE CASE Found(unwrap_node(p, {"Number", "TimeLiteral", "UnbasedUnsizedLiteral",
                                    "StringLiteral"}), "UnbasedUnsizedLiteral")
                -> <<Some("Logic"), TRUE>>
           [] Found(unwrap_node(p, {"Number", "TimeLiteral", "UnbasedUnsizedLiteral",
                                    "StringLiteral"}), "IntegralNumber")
                -> <<Some("Logic"), TRUE>>
           [] Found(unwrap_node(p, {"Number", "TimeLiteral", "UnbasedUnsizedLiteral",
                                    "StringLiteral"}), "RealNumber")
                -> <<Some("Real"), TRUE>>
           [] Found(unwrap_node(p, {"Number", "TimeLiteral", "UnbasedUnsizedLiteral",
                                    "StringLiteral"}), "TimeLiteral")
                -> <<Some("Time"), TRUE>>
           [] Found(unwrap_node(p, {"Number", "TimeLiteral", "UnbasedUnsizedLiteral",
                                    "StringLiteral"}), "StringLiteral")
                -> <<Some("String"), TRUE>>
           [] OTHER -> <<Some("Unsupported"), TRUE>>

\* The pair <<data type, overridable>>.  common_data is Nothing or Some of
\* the record of the shared declaration prefix; its field data_type is the
\* type node found in it, "string" or another DataType node without one, or
\* "implicit" when it has no DataType node.
port_parameter_datatype_ansi(common_data, p, found_assignment, param_type) ==
    IF common_data # Nothing /\ common_data[1].data_type \in TypeNodes
    THEN Returns(<<Some(common_data[1].data_type), FALSE>>)
    ELSE IF common_data # Nothing /\ common_data[1].data_type = "string"
    THEN Returns(<<Some("String"), FALSE>>)
    ELSE IF common_data # Nothing /\ common_data[1].data_type # "implicit"
    THEN Aborts
    ELSE IF found_assignment THEN Returns(DatatypeOfDefault(p))
    ELSE IF param_type = "Parameter" THEN Returns(<<Nothing, TRUE>>)
    ELSE Returns(<<Some("Logic"), FALSE>>)

\* The arm of port_parameter_signedness_ansi for a Logic parameter whose
\* default is a single literal; integral_type is the first number of it.
SignednessOfLiteral(integral_type) ==
    IF Found(integral_type, "UnbasedUnsizedLiteral")
    THEN Returns(<<Some("Unsigned"), TRUE>>)
    ELSE IF integral_type # Nothing /\ integral_type[1].node = "UnsignedNumber"
    THEN Returns(<<Some("Signed"), TRUE>>)
    ELSE IF integral_type = Nothing THEN Aborts
    ELSE IF integral_type[1].token = SignedBase(integral_type[1].node)
    THEN Returns(<<Some("Signed"), TRUE>>)
    ELSE IF integral_type[1].node = "DecimalNumber"
    THEN Returns(<<Some("Unsigned"), FALSE>>)
    ELSE Returns(<<Some("Unsigned"), TRUE>>)

\* SignednessOfLogic with "&&" written for "||" in its first test.
SignednessOfLogicBoth(p, datatype, found_assignment, datatype_overridable) ==
    IF ~datatype_overridable /\ ~found_assignment
    THEN Returns(<<Some("Unsigned"), TRUE>>)
    ELSE IF parameter_resolver_needed_ansi(p)
    THEN IF unwrap_node(p, {"BinaryOperator"}) # Nothing
         THEN Returns(<<parameter_signedness_resolver_ansi(p, datatype), TRUE>>)
         ELSE Returns(<<Some("Unsupported"), TRUE>>)
    ELSE SignednessOfLiteral(
            unwrap_node(p, {"DecimalNumber", "BinaryNumber", "HexNumber",
                            "OctalNumber", "UnbasedUnsizedLiteral"}))

\* The arm "Some(SvDataType::Logic)" of port_parameter_signedness_ansi.
SignednessOfLogic(p, datatype, found_assignment, datatype_overridable) ==
    IF ~datatype_overridable \/ ~found_assignment
    THEN Returns(<<Some("Unsigned"), TRUE>>)
    ELSE IF parameter_resolver_needed_ansi(p)
    THEN IF unwrap_node(p, {"BinaryOperator"}) # Nothing
         THEN Returns(<<parameter_signedness_resolver_ansi(p, datatype), TRUE>>)
         ELSE Returns(<<Some("Unsupported"), TRUE>>)
    ELSE SignednessOfLiteral(
            unwrap_node(p, {"DecimalNumber", "BinaryNumber", "HexNumber",
                            "OctalNumber", "UnbasedUnsizedLiteral"}))

\* The pair <<signedness, overridable>>; m is the common data.
port_parameter_signedness_ansi(m, p, datatype, found_assignment, datatype_overridable) ==
    IF m # Nothing /\ m[1].signing = "signed"
    THEN Returns(<<Some("Signed"), FALSE>>)
    ELSE IF m # Nothing /\ m[1].signing = "unsigned"
    THEN Returns(<<Some("Unsigned"), FALSE>>)
    ELSE IF datatype \in {Some("Class"), Some("String"), Some("Real")}
    THEN Returns(<<Nothing, datatype_overridable>>)
    ELSE IF datatype \in {Some("Shortint"), Some("Int"), Some("Longint"),
                          Some("Byte"), Some("Integer")}
    THEN Returns(<<Some("Signed"), TRUE>>)
    ELSE IF datatype = Some("Logic")
    THEN SignednessOfLogic(p, datatype, found_assignment, datatype_overridable)
    ELSE IF datatype = Some("Unsupported")
    THEN Returns(<<Some("Unsupported"), TRUE>>)
    ELSE IF datatype = Nothing THEN Returns(<<Nothing, TRUE>>)
    ELSE Returns(<<Some("Unsigned"), TRUE>>)

\* port_packeddim_ansi: the pairs <<left, right>> of the ranges of the common
\* data, each bound as get_string returns it.
port_packeddim_ansi(m) == m[1].packed_dimensions

\* String::len of the text that port_parameter_value_ansi returns.
RECURSIVE ExpressionLen(_, _)
ExpressionLen(p, k) ==
    IF k > Len(p) THEN 0 ELSE p[k].len + ExpressionLen(p, k + 1)

\* "(expression.clone().unwrap().len() as u64 - 2) * 8"
StringBits(len, checks) ==
    IF checks /\ (len < 2 \/ (len - 2) * 8 > U64Max) THEN Aborts
    ELSE Returns(Some((((len - 2) % U64Mod) * 8) % U64Mod))

\* The arm of port_parameter_bits_ansi for an overridable Reg or Logic with
\* a default; fixed_size is the first Size or UnbasedUnsizedLiteral of it.
LiteralBits(fixed_size) ==
    IF Found(fixed_size, "Size")
    THEN IF ParseU64(fixed_size[1].size) = Nothing THEN Aborts
         ELSE Returns(ParseU64(fixed_size[1].size))
    ELSE IF Found(fixed_size, "UnbasedUnsizedLiteral") THEN Returns(Some(1))
    ELSE Returns(Some(32))

\* The arm "Some(SvDataType::Reg) | Some(SvDataType::Logic)".
VectorBits(p, datatype_overridable, found_assignment) ==
    IF parameter_resolver_needed_ansi(p) THEN Returns(Some(404))
    ELSE IF ~datatype_overridable THEN Returns(Some(1))
    ELSE IF ~found_assignment THEN Returns(Nothing)
    ELSE LiteralBits(unwrap_node(p, {"Size", "UnbasedUnsizedLiteral"}))

\* The match on the data type of a parameter without packed dimensions.
TypeBits(p, datatype, datatype_overridable, found_assignment, checks) ==
    CASE datatype = Some("Class") -> Returns(Nothing)
      [] datatype = Some("Bit") -> Returns(Some(1))
      [] datatype = Some("Byte") -> Returns(Some(8))
      [] datatype \in {Some("Integer"), Some("Int"), Some("Shortreal")}
            -> Returns(Some(32))
      [] datatype = Some("Shortint") -> Returns(Some(16))
      [] datatype \in {Some("Longint"), Some("Time"), Some("Real"),
                       Some("Realtime")}
            -> Returns(Some(64))
      [] datatype = Some("String") ->
            IF parameter_resolver_needed_ansi(p) THEN Returns(Some(404))
            ELSE IF ~found_assignment THEN Returns(Nothing)
            ELSE StringBits(ExpressionLen(p, 1), checks)
      [] datatype \in {Some("Reg"), Some("Logic")} ->
            VectorBits(p, datatype_overridable, found_assignment)
      [] datatype = Some("Unsupported") -> Returns(Some(404))
      [] datatype = Nothing -> Returns(Nothing)
      [] OTHER -> Aborts

\* Option<u64>; checks is TRUE in a build with overflow checks.
port_parameter_bits_ansi(packed_dimensions, p, datatype, datatype_overridable, found_assignment, checks) ==
    IF Len(packed_dimensions) > 0
    THEN DimLoop(Reverse(packed_dimensions), 1, 0, checks)
    ELSE TypeBits(p, datatype, datatype_overridable, found_assignment, checks)

\* port_parameter_syntax_ansi without its last match, the one on
\* (param_type, found_assignment).
port_parameter_syntax_ansi_types_only(datatype, signedness, packed_dimensions, param_type, found_assignment) ==
    \/ /\ Len(packed_dimensions) > 0
       /\ datatype \in {Some("Integer"), Some("Real"), Some("String"), Some("Time")}
    \/ /\ signedness \in {Some("Signed"), Some("Unsigned")}
       /\ datatype \in {Some("Real"), Some("String")}

\* TRUE when port_parameter_syntax_ansi aborts with its diagnostic.
port_parameter_syntax_ansi(datatype, signedness, packed_dimensions, param_type, found_assignment) ==
    \/ /\ Len(packed_dimensions) > 0
       /\ datatype \in {Some("Integer"), Some("Real"), Some("String"), Some("Time")}
    \/ /\ signedness \in {Some("Signed"), Some("Unsigned")}
       /\ datatype \in {Some("Real"), Some("String")}
    \/ /\ param_type = "LocalParam"
       /\ ~found_assignment

\* The fields of SvParameter that the resolver computes, with the locals of
\* port_parameter_declaration_ansi that they are computed from:
\* explicit_datatype and explicit_signedness are param_explicit_datatype and
\* param_explicit_signedness, the flags "overridable" that
\* port_parameter_datatype_ansi and port_parameter_signedness_ansi return.
NoParam ==
    [datatype |-> Nothing, explicit_datatype |-> FALSE, datatype_overridable |-> FALSE,
     signedness |-> Nothing, explicit_signedness |-> FALSE,
     signedness_overridable |-> FALSE, packed_dimensions |-> << >>,
     num_bits |-> Nothing]

\* The declaration slot of a run that resolves no parameter.
NoDecl == [param_type |-> "Parameter", common_data |-> Nothing, p |-> << >>]

\* The ranges drawn for the packed dimensions: plain bounds in both orders,
\* a bound that is a name, and bounds at the ends of the range of i64.
Ranges ==
    {<< <<"7">>, <<"0">> >>, << <<"0">>, <<"7">> >>, << <<"N">>, <<"0">> >>,
     << DecimalText(I64Max), <<"0">> >>, << <<"-", "1">>, DecimalText(I64Max) >>,
     << DecimalText(I64Max), <<"-", "1">> >>}

RECURSIVE DimLists(_)
DimLists(k) ==
    IF k = 0 THEN {<< >>}
    ELSE DimLists(k - 1)
            \cup {Append(d, r) : d \in {x \in DimLists(k - 1) : Len(x) = k - 1},
                                 r \in Ranges}

\* The shared declaration prefixes the grammar admits: signing on the
\* integer types and on an implicit type, packed dimensions on the vector
\* types and on an implicit type.
CommonData ==
    {Some([data_type |-> t, signing |-> s, packed_dimensions |-> d]) :
        t \in {"Logic", "Reg", "Bit", "implicit"},
        s \in {"none", "signed", "unsigned"},
        d \in DimLists(MaxDims)}
    \cup {Some([data_type |-> t, signing |-> s, packed_dimensions |-> << >>]) :
        t \in {"Byte", "Shortint", "Int", "Longint", "Integer", "Time"},
        s \in {"none", "signed", "unsigned"}}
    \cup {Some([data_type |-> t, signing |-> "none", packed_dimensions |-> << >>]) :
        t \in {"Shortreal", "Realtime", "Real", "Class", "TypeRef", "string",
               "chandle", "type_identifier"}}
    \cup {Nothing}

UnsignedNumber == Node("UnsignedNumber", "", << >>, 1)

\* The default expressions drawn: none, one literal of every kind, and
\* compound expressions.
Defaults ==
    {<< >>,
     <<Node("UnbasedUnsizedLiteral", "", << >>, 2)>>,
     <<UnsignedNumber>>,
     <<Node("BinaryNumber", "'SB", << >>, 4)>>,
     <<Node("HexNumber", "'h", DecimalText(U64Max + 1), 8)>>,
     <<Node("RealNumber", "", << >>, 3)>>,
     <<Node("TimeLiteral", "", << >>, 3)>>,
     <<Node("StringLiteral", "", << >>, 5)>>,
     <<Node("ConstantFunctionCall", "", << >>, 3), UnsignedNumber>>,
     <<Node("Identifier", "", << >>, 1), Node("BinaryOperator", "+", << >>, 1),
       Node("Identifier", "", << >>, 1)>>,
     <<Node("UnbasedUnsizedLiteral", "", << >>, 2),
       Node("BinaryOperator", "|", << >>, 1),
       Node("UnbasedUnsizedLiteral", "", << >>, 2)>>,
     <<Node("BinaryNumber", "'sb", <<"8">>, 5), Node("BinaryOperator", "+", << >>, 1),
       Node("BinaryNumber", "'b", <<"8">>, 4)>>}
    \cup {<<Node(k[1], k[2], <<"8">>, 5)>> :
            k \in {<<"BinaryNumber", "'b">>, <<"BinaryNumber", "'sb">>,
                   <<"HexNumber", "'h">>, <<"HexNumber", "'sh">>,
                   <<"OctalNumber", "'o">>, <<"OctalNumber", "'so">>,
                   <<"DecimalNumber", "'d">>, <<"DecimalNumber", "'sd">>}}
    \cup {<<UnsignedNumber, Node("BinaryOperator", o, << >>, 1), x>> :
            o \in {"+", "&"},
            x \in {UnsignedNumber, Node("RealNumber", "", << >>, 3)}}

\* A list of assignments outside a parameter declaration has no common data
\* and is of kind Parameter.
Declarations ==
    {d \in [param_type : {"Parameter", "LocalParam"}, common_data : CommonData,
            p : Defaults] :
        d.common_data = Nothing => d.param_type = "Parameter"}

----------------------------------------------------------------------------
\* Port declarations (src/src/sv_port.rs) and the traversal of a module
\* declaration (src/src/sv_module.rs).
\*
\* An AnsiPortDeclaration is the record of what its subtree holds: its form
\* ("Net", "Variable" or "Paren"), the PortDirection, the NetType, whether
\* it has a VarDataType node, the type node of its DataType ("implicit"
\* when it has no DataType node), the Signing, the ranges of its packed and
\* unpacked dimensions, its identifiers and the comment that follows it.

\* The names of the nodes that unwrap_node! can find in the declaration m.
PortNodes(m) ==
    {"AnsiPortDeclaration" \o m.form}
        \cup (IF m.direction # Nothing THEN {"PortDirection"} ELSE {})
        \cup (IF m.net_type # Nothing THEN {"NetType"} ELSE {})
        \cup (IF m.var_data_type THEN {"VarDataType"} ELSE {})
        \cup (IF m.data_type # "implicit" THEN {"DataType"} ELSE {})
        \cup (IF m.signing # Nothing THEN {"Signing"} ELSE {})
        \cup (IF m.packed_dimensions # << >> THEN {"PackedDimension"} ELSE {})

\* "unwrap_node!(m, kinds)" is Some(_).
HasNode(m, kinds) == PortNodes(m) \cap kinds # {}

port_check_inheritance_ansi(m, prev) ==
    IF prev # Nothing
    THEN ~HasNode(m, {"DataType", "Signing", "NetType", "VarDataType",
                      "PortDirection", "PackedDimension"})
    ELSE FALSE

port_identifier(m) == m.identifier

port_direction_ansi(node, prev) ==
    IF node.direction # Nothing THEN node.direction[1]
    ELSE IF prev # Nothing THEN prev[1].direction
    ELSE "Inout"

port_datakind_ansi(nettype) ==
    IF nettype = Nothing THEN "Variable" ELSE "Net"

port_datatype_ansi(node) ==
    IF node.data_type \in TypeNodes THEN Returns(node.data_type)
    ELSE IF node.data_type = "implicit" THEN Returns("Logic")
    ELSE IF node.data_type = "string" THEN Returns("String")
    ELSE Aborts

\* The arm of port_nettype_ansi for a net form without a NetType token.
NettypeOfDirection(m, direction) ==
    CASE direction \in {"Inout", "Input"} -> Some("Wire")
      [] direction = "Output" ->
            IF HasNode(m, {"DataType"}) THEN Nothing ELSE Some("Wire")
      [] direction = "Ref" -> Nothing

port_nettype_ansi(m, direction) ==
    IF HasNode(m, {"AnsiPortDeclarationVariable"})
    THEN IF HasNode(m, {"PortDirection", "DataType", "Signing", "PackedDimension"})
         THEN Returns(Nothing)
         ELSE Returns(Some("Wire"))
    ELSE IF HasNode(m, {"AnsiPortDeclarationNet"})
    THEN IF m.net_type # Nothing THEN Returns(m.net_type)
         ELSE Returns(NettypeOfDirection(m, direction))
    ELSE Aborts

port_signedness_ansi(m, datatype) ==
    IF datatype \in {"Class", "String", "Real", "Time"} THEN Nothing
    ELSE IF m.signing # Nothing THEN m.signing
    ELSE IF datatype \in {"Shortint", "Int", "Longint", "Byte", "Integer"}
    THEN Some("Signed")
    ELSE Some("Unsigned")

port_unpackeddim_ansi(m) == m.unpacked_dimensions

port_classid_ansi(m, datatype) ==
    IF datatype = "Class" THEN Some(m.class_identifier) ELSE Nothing

get_comment(m) == m.comment

\* The SvPort of a declaration that computes every field.
PortComputed(p, prev, nettype, datatype) ==
    [identifier |-> port_identifier(p),
     direction |-> port_direction_ansi(p, prev),
     nettype |-> nettype,
     datakind |-> port_datakind_ansi(nettype),
     datatype |-> datatype,
     classid |-> port_classid_ansi(p, datatype),
     signedness |-> port_signedness_ansi(p, datatype),
     packed_dimensions |-> port_packeddim_ansi(Some(p)),
     unpacked_dimensions |-> port_unpackeddim_ansi(p),
     comment |-> get_comment(p)]

\* The SvPort of a declaration that inherits from the port prev.
PortInherited(p, prev) ==
    [identifier |-> port_identifier(p),
     direction |-> prev.direction,
     nettype |-> prev.nettype,
     datakind |-> prev.datakind,
     datatype |-> prev.datatype,
     classid |-> prev.classid,
     signedness |-> prev.signedness,
     packed_dimensions |-> prev.packed_dimensions,
     unpacked_dimensions |-> port_unpackeddim_ansi(p),
     comment |-> get_comment(p)]

\* port_declaration_ansi with the inheritance test left out.
port_declaration_ansi_computed(p, prev) ==
    IF port_nettype_ansi(p, port_direction_ansi(p, prev)).abort
       \/ port_datatype_ansi(p).abort
    THEN Aborts
    ELSE Returns(PortComputed(p, prev,
                    port_nettype_ansi(p, port_direction_ansi(p, prev)).value,
                    port_datatype_ansi(p).value))

port_declaration_ansi(p, prev) ==
    IF port_check_inheritance_ansi(p, prev)
    THEN Returns(PortInherited(p, prev[1]))
    ELSE port_declaration_ansi_computed(p, prev)

\* "state.contains(word)" for the name of a node.
Contains(state, word) == state = word

\* The entries that take_while yields from the top of the stack down to,
\* and without, the first that contains "ModuleAnsiHeader".
RECURSIVE TakeWhile(_, _)
TakeWhile(parent_nodes, k) ==
    IF k = 0 \/ Contains(parent_nodes[k], "ModuleAnsiHeader") THEN {}
    ELSE {k} \cup TakeWhile(parent_nodes, k - 1)

\* if_module_comment that tests the top of the stack only.
if_module_comment_top(parent_nodes) ==
    \A k \in {Len(parent_nodes)} \ {0} :
        \/ Contains(parent_nodes[k], "ModuleAnsiHeader")
        \/ Contains(parent_nodes[k], "WhiteSpace")
        \/ Contains(parent_nodes[k], "Symbol")

if_module_comment(parent_nodes) ==
    \A k \in TakeWhile(parent_nodes, Len(parent_nodes)) :
        \/ Contains(parent_nodes[k], "WhiteSpace")
        \/ Contains(parent_nodes[k], "Symbol")

----------------------------------------------------------------------------
\* The state machine: operands are drawn, one operator is applied to them,
\* and a returned value may become the receiver of the next call.

WordCount(size) == (size + BITS - 1) \div BITS

\* The words of the bit pattern val, least significant word first.
Words(val, len) == [x \in 1..len |-> (val \div Pow2(BITS * (x - 1))) % WordMod]

\* Well-formed two-state values of at most max bits.
TwoState(max) ==
    UNION {{[data_01 |-> Words(val, WordCount(size)), data_xz |-> None,
             size |-> size, signed |-> sg] :
                val \in 0..(Pow2(size) - 1), sg \in BOOLEAN} : size \in 1..max}

\* Well-formed four-state values of at most max bits.
FourState(max) ==
    UNION {{[data_01 |-> Words(val, WordCount(size)),
             data_xz |-> Words(xz, WordCount(size)),
             size |-> size, signed |-> sg] :
                val \in 0..(Pow2(size) - 1), xz \in 0..(Pow2(size) - 1),
                sg \in BOOLEAN} : size \in 1..max}

Operands == TwoState(MaxSize) \cup FourState(MaxSizeXZ)

\* The second-operand slot of a call that takes one operand.
NoOperand == Panic

\* No module declaration is traversed.
NoModule ==
    /\ events = << >>
    /\ pos = 0
    /\ parent_stack = << >>
    /\ entering = TRUE
    /\ prev_port = Nothing
    /\ module_ret = [ports |-> << >>, comments |-> << >>]

Init ==
    /\ pc = "start"
    /\ op = "none"
    /\ lhs \in Operands
    /\ rhs \in Operands \cup {NoOperand}
    /\ n = 0
    /\ res = lhs
    /\ flag = FALSE
    /\ decl = NoDecl
    /\ param = NoParam
    /\ overflow_checks \in BOOLEAN
    /\ NoModule

Return(name, value) ==
    /\ pc' = "done"
    /\ op' = name
    /\ res' = value
    /\ flag' = FALSE
    /\ UNCHANGED <<lhs, rhs, decl, param, overflow_checks, module_vars>>

Binary(name, value) ==
    /\ pc = "start"
    /\ rhs # NoOperand
    /\ n' = 0
    /\ Return(name, value)

Unary(name, value) ==
    /\ pc = "start"
    /\ rhs = NoOperand
    /\ n' = 0
    /\ Return(name, value)

Add == Binary("add_primlit", add_primlit(lhs, rhs))

Mult == Binary("mult", mult(lhs, rhs))

Cat == Binary("cat", cat(lhs, rhs))

Lt == Binary("lt", lt(lhs, rhs))

Le == Binary("le", le(lhs, rhs))

Gt == Binary("gt", gt(lhs, rhs))

Ge == Binary("ge", ge(lhs, rhs))

CaseEq == Binary("case_eq", case_eq(lhs, rhs))

LogicalEq == Binary("logical_eq", logical_eq(lhs, rhs))

WildcardEq == Binary("wildcard_eq", wildcard_eq(lhs, rhs))

\* The call extends both operands in place; res is the pair of them after
\* the call.
MatchedSignExtend == Binary("_matched_sign_extend", _matched_sign_extend(lhs, rhs))

Inv == Unary("inv", inv(lhs))

Negate == Unary("negate", negate(lhs))

MinimumWidth == Unary("_minimum_width", _minimum_width(lhs))

\* A call of a predicate on the receiver: the receiver is left as it is and
\* the answer is kept; no answer when the call aborts.
Predicate(name, aborts, answer) ==
    /\ pc = "start"
    /\ rhs = NoOperand
    /\ n' = 0
    /\ pc' = "done"
    /\ op' = name
    /\ res' = IF aborts THEN Panic ELSE lhs
    /\ flag' = IF aborts THEN FALSE ELSE answer
    /\ UNCHANGED <<lhs, rhs, decl, param, overflow_checks, module_vars>>

IsNegative == Predicate("is_negative", is_negative_aborts(lhs), is_negative(lhs))

Shift(name, k, value) ==
    /\ pc = "start"
    /\ rhs = NoOperand
    /\ n' = k
    /\ Return(name, value)

Lsl == \E k \in 0..MaxShift : Shift("lsl", k, lsl(lhs, k))

Lsr == \E k \in 0..MaxShift : Shift("lsr", k, lsr(lhs, k))

Rol == \E k \in 0..MaxShift : Shift("rol", k, rol(lhs, k))

Ror == \E k \in 0..MaxShift : Shift("ror", k, ror(lhs, k))

Truncate == \E k \in 0..(MaxSize + 1) : Shift("_truncate", k, _truncate(lhs, k))

UsizeToPrimlit == \E u \in 0..UsizeMax : Shift("usize_to_primlit", u, usize_to_primlit(u))

\* "self + rhs" with a usize on the right.
AddUsize == \E u \in 0..UsizeMax : Shift("add_usize", u, add_usize(lhs, u))

\* A returned value that is again an operand of the drawn range becomes the
\* receiver of the next call.
Chain ==
    /\ pc = "done"
    /\ res \in Operands
    /\ pc' = "start"
    /\ op' = "none"
    /\ lhs' = res
    /\ res' = res
    /\ flag' = FALSE
    /\ n' = 0
    /\ UNCHANGED <<rhs, decl, param, overflow_checks, module_vars>>

Next ==
    \/ Add \/ Mult \/ Cat
    \/ Lt \/ Le \/ Gt \/ Ge \/ CaseEq \/ LogicalEq \/ WildcardEq
    \/ MatchedSignExtend
    \/ Inv \/ Negate \/ MinimumWidth
    \/ IsNegative
    \/ Lsl \/ Lsr \/ Rol \/ Ror
    \/ Truncate
    \/ UsizeToPrimlit \/ AddUsize
    \/ Chain

Spec == Init /\ [][Next]_vars

\* Words drawn for a value of several words: zero, one, the top bit alone
\* and all bits.
WordSamples == {0, 1, WordMod \div 2, WordMod - 1}

\* Four-state values of k whole words.
WholeWords(k) ==
    {[data_01 |-> d, data_xz |-> x, size |-> k * BITS, signed |-> sg] :
        d \in [1..k -> WordSamples], x \in [1..k -> WordSamples], sg \in BOOLEAN}

\* Width canonicalisation of a four-state value of up to MaxWords words.
WidthInit ==
    /\ pc = "start"
    /\ op = "none"
    /\ \E k \in 1..MaxWords : lhs \in WholeWords(k)
    /\ rhs = NoOperand
    /\ n = 0
    /\ res = lhs
    /\ flag = FALSE
    /\ decl = NoDecl
    /\ param = NoParam
    /\ overflow_checks \in BOOLEAN
    /\ NoModule

WidthNext == MinimumWidth

WidthSpec == WidthInit /\ [][WidthNext]_vars

\* Resolving one parameter declaration: port_parameter_declaration_ansi, one
\* action for each of its calls.

ParamInit ==
    /\ pc = "declared"
    /\ decl \in Declarations
    /\ param = NoParam
    /\ overflow_checks \in BOOLEAN
    /\ op = "none"
    /\ lhs = bit1b_0
    /\ rhs = NoOperand
    /\ n = 0
    /\ res = bit1b_0
    /\ flag = FALSE
    /\ NoModule

\* The end of the call of function name with outcome r: the declaration
\* aborts with the call, otherwise the locals become updated and the next
\* call is at label.
Advance(name, r, label, updated) ==
    /\ op' = name
    /\ pc' = IF r.abort THEN "aborted" ELSE label
    /\ param' = IF r.abort THEN param ELSE updated
    /\ UNCHANGED <<decl, lhs, rhs, n, res, flag, overflow_checks, module_vars>>

DatatypeReturned(r) ==
    Advance("port_parameter_datatype_ansi", r, "datatype",
            [param EXCEPT !.datatype = r.value[1], !.explicit_datatype = r.value[2]])

ParameterDatatype ==
    /\ pc = "declared"
    /\ DatatypeReturned(
        port_parameter_datatype_ansi(decl.common_data, decl.p,
            port_parameter_check_default_ansi(decl.p), decl.param_type))

SignednessReturned(r) ==
    Advance("port_parameter_signedness_ansi", r, "signedness",
            [param EXCEPT !.signedness = r.value[1],
                          !.explicit_signedness = r.value[2]])

ParameterSignedness ==
    /\ pc = "datatype"
    /\ SignednessReturned(
        port_parameter_signedness_ansi(decl.common_data, decl.p, param.datatype,
            port_parameter_check_default_ansi(decl.p), param.explicit_datatype))

\* "param_packeddim" of port_parameter_declaration_ansi.
ParamPackedDim ==
    IF decl.common_data = Nothing THEN << >>
    ELSE port_packeddim_ansi(decl.common_data)

\* The record ret once num_bits is computed.
BitsReturned(r) ==
    Advance("port_parameter_bits_ansi", r, "bits",
            [param EXCEPT
                !.datatype_overridable =
                    param.explicit_datatype /\ decl.param_type = "Parameter",
                !.signedness_overridable =
                    param.explicit_signedness /\ decl.param_type = "Parameter",
                !.packed_dimensions = ParamPackedDim,
                !.num_bits = r.value])

ParameterBits ==
    /\ pc = "signedness"
    /\ BitsReturned(
        port_parameter_bits_ansi(ParamPackedDim, decl.p, param.datatype,
            param.explicit_datatype, port_parameter_check_default_ansi(decl.p),
            overflow_checks))

ParameterSyntax ==
    /\ pc = "bits"
    /\ pc' = IF port_parameter_syntax_ansi(param.datatype, param.signedness,
                    param.packed_dimensions, decl.param_type,
                    port_parameter_check_default_ansi(decl.p))
             THEN "aborted" ELSE "returned"
    /\ op' = "port_parameter_syntax_ansi"
    /\ UNCHANGED <<decl, param, lhs, rhs, n, res, flag, overflow_checks, module_vars>>

ParamNext ==
    \/ ParameterDatatype
    \/ ParameterSignedness
    \/ ParameterBits
    \/ ParameterSyntax

ParamSpec == ParamInit /\ [][ParamNext]_vars

\* A node of the syntax tree: the name of its type and, for a port
\* declaration or a comment, what it holds.
TreeNode(kind, body) == [kind |-> kind, body |-> body]

Enter(x) == [enter |-> TRUE, node |-> x]

Leave(x) == [enter |-> FALSE, node |-> x]

PortSyntax(form, direction, net_type, var, data_type, signing, packed, id) ==
    [form |-> form, direction |-> direction, net_type |-> net_type,
     var_data_type |-> var, data_type |-> data_type, signing |-> signing,
     packed_dimensions |-> packed, identifier |-> id,
     class_identifier |-> "", unpacked_dimensions |-> << >>,
     comment |-> Nothing]

\* "[7:0]"
Packed70 == << << <<"7">>, <<"0">> >> >>

\* The port declarations drawn, by the text that parses to each.
PortDeclarations ==
    {\* input logic [7:0] a
     PortSyntax("Net", Some("Input"), Nothing, FALSE, "Logic", Nothing, Packed70, "a"),
     \* output logic b
     PortSyntax("Net", Some("Output"), Nothing, FALSE, "Logic", Nothing, << >>, "b"),
     \* output c
     PortSyntax("Net", Some("Output"), Nothing, FALSE, "implicit", Nothing, << >>, "c"),
     \* inout wire d
     PortSyntax("Net", Some("Inout"), Some("Wire"), FALSE, "implicit", Nothing, << >>, "d"),
     \* tri e
     PortSyntax("Net", Nothing, Some("Tri"), FALSE, "implicit", Nothing, << >>, "e"),
     \* ref int f
     PortSyntax("Net", Some("Ref"), Nothing, FALSE, "Int", Nothing, << >>, "f"),
     \* var g
     PortSyntax("Variable", Nothing, Nothing, TRUE, "implicit", Nothing, << >>, "g"),
     \* input var logic h
     PortSyntax("Variable", Some("Input"), Nothing, TRUE, "Logic", Nothing, << >>, "h"),
     \* input int unsigned k
     PortSyntax("Net", Some("Input"), Nothing, FALSE, "Int", Some("Unsigned"), << >>, "k"),
     \* signed [7:0] s
     PortSyntax("Net", Nothing, Nothing, FALSE, "implicit", Some("Signed"), Packed70, "s"),
     \* output string t
     PortSyntax("Net", Some("Output"), Nothing, FALSE, "string", Nothing, << >>, "t"),
     \* input my_t z
     PortSyntax("Net", Some("Input"), Nothing, FALSE, "type_identifier", Nothing, << >>, "z"),
     \* .p(x)
     PortSyntax("Paren", Nothing, Nothing, FALSE, "implicit", Nothing, << >>, "p"),
     \* input C o
     [PortSyntax("Net", Some("Input"), Nothing, FALSE, "Class", Nothing, << >>, "o")
        EXCEPT !.class_identifier = "C"],
     \* x
     PortSyntax("Net", Nothing, Nothing, FALSE, "implicit", Nothing, << >>, "x"),
     \* y [3:0] // last
     [PortSyntax("Net", Nothing, Nothing, FALSE, "implicit", Nothing, << >>, "y")
        EXCEPT !.unpacked_dimensions = << << <<"3">>, Some(<<"0">>) >> >>,
               !.comment = Some(<<"// last">>)],
     \* w [$]
     [PortSyntax("Variable", Nothing, Nothing, FALSE, "implicit", Nothing, << >>, "w")
        EXCEPT !.unpacked_dimensions = << >>]}

\* The events of the port declarations l[k..], none of which has a child
\* that the traversal acts on.
RECURSIVE PortEvents(_, _)
PortEvents(l, k) ==
    IF k > Len(l) THEN << >>
    ELSE <<Enter(TreeNode("AnsiPortDeclaration", Some(l[k]))),
           Leave(TreeNode("AnsiPortDeclaration", Some(l[k])))>>
            \o PortEvents(l, k + 1)

\* The kinds of the nodes of the trees drawn; a Comment has no child that
\* the traversal acts on.
NodeKinds == {"ModuleAnsiHeader", "WhiteSpace", "Symbol", "Keyword", "Comment"}

\* The nesting depth after the first j events of the shape s, in which
\* TRUE stands for an Enter and FALSE for a Leave.
RECURSIVE ShapeDepth(_, _)
ShapeDepth(s, j) ==
    IF j = 0 THEN 0 ELSE ShapeDepth(s, j - 1) + (IF s[j] THEN 1 ELSE -1)

\* The shapes of the forests of exactly k nodes: every Leave closes an
\* open node, and every node is closed.
Shapes(k) ==
    {s \in [1..(2 * k) -> BOOLEAN] :
        /\ ShapeDepth(s, 2 * k) = 0
        /\ \A j \in 1..(2 * k) : ShapeDepth(s, j) >= 0}

\* The Enter that the Leave at j closes.
Opener(s, j) ==
    CHOOSE i \in 1..(j - 1) :
        /\ s[i]
        /\ ShapeDepth(s, i - 1) = ShapeDepth(s, j)
        /\ \A m \in i..(j - 1) : ShapeDepth(s, m) > ShapeDepth(s, j)

\* The number, in the order of the Enters, of the node of event j.
Ordinal(s, j) ==
    Cardinality({i \in 1..(IF s[j] THEN j ELSE Opener(s, j)) : s[i]})

NodeMaps(k) ==
    {[j \in 1..(2 * k) |-> [enter |-> s[j], node |-> Ordinal(s, j)]] : s \in Shapes(k)}

\* A Comment has no child that the traversal acts on.
CommentsAreLeaves(nm, kinds) ==
    \A j \in DOMAIN nm :
        (nm[j].enter /\ kinds[nm[j].node] = "Comment") => ~nm[j + 1].enter

\* The events of the forest of shape nm whose nodes have the given kinds.
ForestEvents(nm, kinds) ==
    [j \in DOMAIN nm |->
        [enter |-> nm[j].enter,
         node |-> TreeNode(kinds[nm[j].node],
                           IF kinds[nm[j].node] = "Comment" THEN Some("// c")
                           ELSE Nothing)]]

\* The events of a module declaration whose children are the events inner.
ModuleEvents(inner) ==
    <<Enter(TreeNode("ModuleDeclarationAnsi", Nothing))>>
        \o inner
        \o <<Leave(TreeNode("ModuleDeclarationAnsi", Nothing))>>

\* The state before the first event of module_declaration_ansi over the
\* events ev.
ModuleStart(ev) ==
    /\ pc = "walking"
    /\ events = ev
    /\ pos = 0
    /\ parent_stack = << >>
    /\ entering = TRUE
    /\ prev_port = Nothing
    /\ module_ret = [ports |-> << >>, comments |-> << >>]
    /\ decl = NoDecl
    /\ param = NoParam
    /\ overflow_checks = FALSE
    /\ op = "none"
    /\ lhs = bit1b_0
    /\ rhs = NoOperand
    /\ n = 0
    /\ res = bit1b_0
    /\ flag = FALSE

\* The events of a module whose header holds the port declarations l and
\* whose body holds the nodes of inner.
HeaderEvents(l, inner) ==
    ModuleEvents(<<Enter(TreeNode("ModuleAnsiHeader", Nothing))>>
                    \o PortEvents(l, 1)
                    \o <<Leave(TreeNode("ModuleAnsiHeader", Nothing))>>
                    \o inner)

\* "// c" after the header
BodyComment ==
    <<Enter(TreeNode("Comment", Some("// c"))), Leave(TreeNode("Comment", Some("// c")))>>

\* The traversals drawn for the ports: a module whose header holds a list
\* of at most MaxPorts port declarations, a comment following the header.
PortInit ==
    \E k \in 0..MaxPorts : \E l \in [1..k -> PortDeclarations] :
        ModuleStart(HeaderEvents(l, BodyComment))

\* The traversals drawn for the comments: a module of at most MaxNodes
\* nodes of NodeKinds, and a module of one port.
ModuleInit ==
    \/ \E l \in [1..1 -> PortDeclarations] : ModuleStart(HeaderEvents(l, << >>))
    \/ \E k \in 1..MaxNodes : \E nm \in NodeMaps(k) : \E kinds \in [1..k -> NodeKinds] :
            /\ CommentsAreLeaves(nm, kinds)
            /\ ModuleStart(ModuleEvents(ForestEvents(nm, kinds)))

\* "parent_stack.pop()"
Pop(stack) == IF stack = << >> THEN stack ELSE SubSeq(stack, 1, Len(stack) - 1)

\* The head of one iteration of the loop of module_declaration_ansi: the
\* event is taken, the name of its node pushed or the top popped.
Event(e) ==
    /\ pc = "walking"
    /\ pos < Len(events)
    /\ e = events[pos + 1]
    /\ pos' = pos + 1
    /\ entering' = e.enter
    /\ parent_stack' = IF e.enter THEN Append(parent_stack, e.node.kind)
                       ELSE Pop(parent_stack)
    /\ UNCHANGED <<events, op, lhs, rhs, n, res, flag, decl, param, overflow_checks>>

\* The arm "RefNode::AnsiPortDeclaration(p)".
AnsiPortDeclarationArm ==
    \E e \in {events[k] : k \in {pos + 1} \cap DOMAIN events} :
        /\ e.node.kind = "AnsiPortDeclaration"
        /\ Event(e)
        /\ IF ~e.enter
           THEN pc' = pc /\ UNCHANGED <<prev_port, module_ret>>
           ELSE IF port_declaration_ansi(e.node.body[1], prev_port).abort
           THEN pc' = "aborted" /\ UNCHANGED <<prev_port, module_ret>>
           ELSE /\ pc' = pc
                /\ module_ret' = [module_ret EXCEPT !.ports =
                            Append(@, port_declaration_ansi(e.node.body[1], prev_port).value)]
                /\ prev_port' = Some(port_declaration_ansi(e.node.body[1], prev_port).value)

\* The arm "RefNode::Comment(p)".
CommentArm ==
    \E e \in {events[k] : k \in {pos + 1} \cap DOMAIN events} :
        /\ e.node.kind = "Comment"
        /\ Event(e)
        /\ pc' = pc
        /\ module_ret' = IF if_module_comment(parent_stack')
                  THEN [module_ret EXCEPT !.comments = Append(@, e.node.body[1])]
                  ELSE module_ret
        /\ UNCHANGED prev_port

\* The arm "_ => ()".
OtherArm ==
    \E e \in {events[k] : k \in {pos + 1} \cap DOMAIN events} :
        /\ e.node.kind \notin {"AnsiPortDeclaration", "Comment"}
        /\ Event(e)
        /\ pc' = pc
        /\ UNCHANGED <<prev_port, module_ret>>

\* The end of the loop: module_declaration_ansi returns ret.
ModuleReturn ==
    /\ pc = "walking"
    /\ pos = Len(events)
    /\ pc' = "walked"
    /\ UNCHANGED <<op, lhs, rhs, n, res, flag, decl, param, overflow_checks, module_vars>>

ModuleNext ==
    \/ AnsiPortDeclarationArm
    \/ CommentArm
    \/ OtherArm
    \/ ModuleReturn

ModuleSpec == ModuleInit /\ [][ModuleNext]_vars

PortSpec == PortInit /\ [][ModuleNext]_vars

TypeOK ==
    /\ pc \in {"start", "done"}
    /\ lhs \in Operands

----------------------------------------------------------------------------
\* Reading values.

\* Bit i (from 0) of a word vector; 0 beyond its last word.
Bit(d, i) ==
    IF i \div BITS + 1 > Len(d) THEN 0
    ELSE (d[i \div BITS + 1] \div Pow2(i % BITS)) % 2

RECURSIVE RawWords(_, _)
RawWords(d, x) ==
    IF x > Len(d) THEN 0 ELSE d[x] * Pow2(BITS * (x - 1)) + RawWords(d, x + 1)

\* The bit pattern of data_01 read as an unsigned integer.
Raw(v) == RawWords(v.data_01, 1)

\* The bit pattern read as a two's-complement integer of v.size bits.
Twos(v) == IF Raw(v) >= Pow2(v.size - 1) THEN Raw(v) - Pow2(v.size) ELSE Raw(v)

\* No set bit at a position >= size.
NoJunk(d, size) == \A x \in 1..Len(d) : d[x] < Pow2(BITS) /\
    (x = Len(d) /\ size < BITS * Len(d) /\ size > BITS * (Len(d) - 1)
        => d[x] < Pow2(size - BITS * (Len(d) - 1)))

WellFormed(v) ==
    /\ v.size >= 1
    /\ Len(v.data_01) = WordCount(v.size)
    /\ NoJunk(v.data_01, v.size)
    /\ is_4state(v) => /\ Len(v.data_xz) = Len(v.data_01)
                       /\ NoJunk(v.data_xz, v.size)

Max(x, y) == IF x > y THEN x ELSE y

Returned(name) == pc = "done" /\ op = name

\* v has an X or Z bit at a position below its size.
HasXZ(v) ==
    is_4state(v) /\ \E i \in 0..(v.size - 1) : Bit(v.data_xz, i) = 1

TwoStateOps == ~HasXZ(lhs) /\ ~HasXZ(rhs)

BothSigned == lhs.signed /\ rhs.signed

----------------------------------------------------------------------------
\* Claims.

\* C1: every value returned by lsl, lsr, rol, ror, inv, negate, add_primlit,
\* mult or cat on well-formed operands is again well-formed (size >= 1,
\* len(data_01) = ceil(size / W), data_xz of the same length when four-state,
\* no set bit at a position >= size).
C1_ResultWellFormed ==
    (pc = "done"
     /\ op \in {"lsl", "lsr", "rol", "ror", "inv", "negate",
                "add_primlit", "mult", "cat"}
     /\ ~IsPanic(res))
        => WellFormed(res)

\* C2: on operands without X/Z, add_primlit returns the exact sum: signed
\* with two's-complement value value(a) + value(b) when both are signed,
\* unsigned with the sum of the raw bit patterns otherwise.
C2_AddExact ==
    (Returned("add_primlit") /\ TwoStateOps)
        => /\ ~IsPanic(res)
           /\ res.signed = BothSigned
           /\ res.size = Max(lhs.size, rhs.size) + 1
           /\ IF BothSigned THEN Twos(res) = Twos(lhs) + Twos(rhs)
              ELSE Raw(res) = Raw(lhs) + Raw(rhs)

\* C3: add_primlit(a, b).size = max(a.size, b.size) + 1 and
\* mult(a, b).size = a.size + b.size, for all operands.
C3_WidthLaw ==
    /\ Returned("add_primlit")
           => ~IsPanic(res) /\ res.size = Max(lhs.size, rhs.size) + 1
    /\ Returned("mult")
           => ~IsPanic(res) /\ res.size = lhs.size + rhs.size

\* C4: on operands without X/Z, mult returns the exact product: signed iff
\* both operands are signed, with two's-complement value value(a) * value(b)
\* at width a.size + b.size; otherwise the product of the raw bit patterns.
C4_MultExact ==
    (Returned("mult") /\ TwoStateOps)
        => /\ ~IsPanic(res)
           /\ res.signed = BothSigned
           /\ res.size = lhs.size + rhs.size
           /\ IF BothSigned THEN Twos(res) = Twos(lhs) * Twos(rhs)
              ELSE Raw(res) = Raw(lhs) * Raw(rhs)

\* C5: when an operand of add_primlit or mult contains X or Z, every bit
\* position below the size of the result is X (data_01 bit 0, data_xz bit 1)
\* and the result is signed iff both operands are signed.
C5_Poisoned ==
    (pc = "done" /\ op \in {"add_primlit", "mult"} /\ ~TwoStateOps)
        => /\ ~IsPanic(res)
           /\ is_4state(res)
           /\ \A i \in 0..(res.size - 1) :
                  Bit(res.data_01, i) = 0 /\ Bit(res.data_xz, i) = 1
           /\ res.signed = BothSigned

\* The values lt compares: two's complement when both operands are signed,
\* raw bit patterns when either is unsigned.
CmpVal(v) == IF BothSigned THEN Twos(v) ELSE Raw(v)

\* C6: on operands without X/Z, lt(a, b) is logic1b_1 iff value(a) < value(b)
\* and logic1b_0 otherwise.
C6_LtNumeric ==
    (Returned("lt") /\ TwoStateOps)
        => res = IF CmpVal(lhs) < CmpVal(rhs) THEN logic1b_1 ELSE logic1b_0

\* C7: lt, le, gt, ge and logical_eq return logic1b_x when an operand
\* contains X or Z, and logic1b_0 or logic1b_1 otherwise.
C7_RelationalX ==
    (pc = "done" /\ op \in {"lt", "le", "gt", "ge", "logical_eq"})
        => IF TwoStateOps THEN res \in {logic1b_0, logic1b_1}
           ELSE res = logic1b_x

\* C8: gt(a, b) = lt(b, a) and ge(a, b) = le(b, a), for all operands.
C8_Mirror ==
    /\ Returned("gt") => ~IsPanic(res) /\ res = lt(rhs, lhs)
    /\ Returned("ge") => ~IsPanic(res) /\ res = le(rhs, lhs)

\* C9: case_eq returns bit1b_0 or bit1b_1, never X, and bit1b_0 when exactly
\* one operand contains X or Z.
C9_CaseEqTwoState ==
    Returned("case_eq")
        => /\ res \in {bit1b_0, bit1b_1}
           /\ HasXZ(lhs) # HasXZ(rhs) => res = bit1b_0

\* C10: on operands without X/Z, case_eq(a, b) is bit1b_1 iff the values are
\* equal after extension to a common width (two's complement when both are
\* signed, raw bit patterns when either is unsigned).
C10_CaseEqValue ==
    (Returned("case_eq") /\ TwoStateOps)
        => res = IF CmpVal(lhs) = CmpVal(rhs) THEN bit1b_1 ELSE bit1b_0

\* The state <<data_01 bit, data_xz bit>> of position i of v once v is
\* extended beyond its size: by its most significant position when the
\* comparison is signed, by 0 otherwise.
StateAt(v, i, sign_extended) ==
    IF i >= v.size /\ ~sign_extended THEN <<0, 0>>
    ELSE LET j == IF i < v.size THEN i ELSE v.size - 1
         IN  <<Bit(v.data_01, j), IF is_4state(v) THEN Bit(v.data_xz, j) ELSE 0>>

\* lhs and rhs agree at every position where rhs is 0 or 1.
WildcardMatch ==
    \A i \in 0..(Max(lhs.size, rhs.size) - 1) :
        \/ StateAt(rhs, i, BothSigned)[2] = 1
        \/ StateAt(lhs, i, BothSigned) = StateAt(rhs, i, BothSigned)

\* C11: wildcard_eq(a, b) is logic1b_1 whenever a and b, extended to a
\* common width according to signedness, agree at every position where b is
\* not X or Z; the X/Z positions of b match any bit of a.
C11_WildcardOne ==
    (Returned("wildcard_eq") /\ WildcardMatch) => res = logic1b_1

\* inv keeps size, signedness and data_xz.
InvFrame ==
    /\ ~IsPanic(res)
    /\ res.size = lhs.size
    /\ res.signed = lhs.signed
    /\ res.data_xz = lhs.data_xz
    /\ Len(res.data_01) = Len(lhs.data_01)

\* Position i of lhs is X or Z.
IsXZAt(i) == is_4state(lhs) /\ Bit(lhs.data_xz, i) = 1

\* C12 as stated: inv flips the data_01 bit of every two-state position and
\* leaves every X or Z position as it is (X stays X, Z stays Z); size,
\* signedness and data_xz are unchanged.
C12_InvKeepsXZ ==
    Returned("inv")
        => /\ InvFrame
           /\ \A i \in 0..(lhs.size - 1) :
                  Bit(res.data_01, i) = IF IsXZAt(i) THEN Bit(lhs.data_01, i)
                                        ELSE 1 - Bit(lhs.data_01, i)

\* C12 amended: inv flips the data_01 bit of every two-state position and
\* clears the data_01 bit of every X or Z position (X stays X, Z becomes X);
\* size, signedness and data_xz are unchanged.
C12_InvZBecomesX ==
    Returned("inv")
        => /\ InvFrame
           /\ \A i \in 0..(lhs.size - 1) :
                  Bit(res.data_01, i) = IF IsXZAt(i) THEN 0
                                        ELSE 1 - Bit(lhs.data_01, i)

RECURSIVE Ones(_)
\* The number of set bits of a host word.
Ones(w) == IF w = 0 THEN 0 ELSE (w % 2) + Ones(w \div 2)

RECURSIVE Population(_, _)
\* The number of set bits of the word vector d from word x on.
Population(d, x) ==
    IF x > Len(d) THEN 0 ELSE Ones(d[x]) + Population(d, x + 1)

\* res has the size of lhs and as many set bits in data_01 and in data_xz.
SamePopulation ==
    /\ res.size = lhs.size
    /\ Population(res.data_01, 1) = Population(lhs.data_01, 1)
    /\ is_4state(res) = is_4state(lhs)
    /\ is_4state(lhs) => Population(res.data_xz, 1) = Population(lhs.data_xz, 1)

\* C13: rol(ror(v, n), n) = v and ror(rol(v, n), n) = v for every
\* well-formed v and every n; rol and ror keep size and the number of set
\* bits of data_01 and of data_xz.
C13_RotationRing ==
    /\ Returned("ror") => ~IsPanic(res) /\ SamePopulation /\ rol(res, n) = lhs
    /\ Returned("rol") => ~IsPanic(res) /\ SamePopulation /\ ror(res, n) = lhs

\* The state <<data_01 bit, data_xz bit>> of position i of v; a two-state
\* value has no X or Z position.
StateOf(v, i) ==
    <<Bit(v.data_01, i), IF is_4state(v) THEN Bit(v.data_xz, i) ELSE 0>>

\* C14: for operands in any combination of two-state and four-state,
\* cat(a, b) has size a.size + b.size, its low b.size positions are those of
\* b and its high a.size positions are those of a, in data_01 and data_xz.
C14_CatLayout ==
    Returned("cat")
        => /\ ~IsPanic(res)
           /\ res.size = lhs.size + rhs.size
           /\ \A i \in 0..(rhs.size - 1) : StateOf(res, i) = StateOf(rhs, i)
           /\ \A i \in 0..(lhs.size - 1) :
                  StateOf(res, rhs.size + i) = StateOf(lhs, i)

\* C15: for every well-formed value v, _minimum_width completes without
\* aborting and applying it a second time changes nothing.
C15_MinimumWidthIdempotent ==
    Returned("_minimum_width")
        => ~IsPanic(res) /\ _minimum_width(res) = res

RECURSIVE MinSignedWidthFrom(_, _)
MinSignedWidthFrom(x, w) ==
    IF -Pow2(w - 1) <= x /\ x < Pow2(w - 1) THEN w
    ELSE MinSignedWidthFrom(x, w + 1)

\* The least number of bits that holds x in two's complement.
MinSignedWidth(x) == MinSignedWidthFrom(x, 1)

\* C16: for every two-state signed v, negate(v) has two's-complement value
\* -value(v) at the minimum signed width, and negate(negate(v)) is v
\* canonicalised by _minimum_width.
C16_NegateInvolution ==
    (Returned("negate") /\ lhs.signed /\ ~is_4state(lhs))
        => /\ ~IsPanic(res)
           /\ res.signed
           /\ Twos(res) = -Twos(lhs)
           /\ res.size = MinSignedWidth(-Twos(lhs))
           /\ negate(res) = _minimum_width(lhs)

\* The bit at position size - 1 of data_01 of lhs is set.
TopBitSet == Bit(lhs.data_01, lhs.size - 1) = 1

Called(name) == op = name

CallAborted(name) == op = name /\ pc = "aborted"

CallReturned(name) == op = name /\ pc # "aborted"

\* The packed dimensions and the default expression of the declaration.
DeclDims == IF decl.common_data = Nothing THEN << >>
            ELSE decl.common_data[1].packed_dimensions

HasDefault == decl.p # << >>

\* The text is a decimal integer: an optional sign, then digits only.
IsInteger(s) ==
    /\ Len(s) > 0
    /\ \A k \in 1..Len(s) : IsDigit(s[k]) \/ (k = 1 /\ s[k] \in {"+", "-"})
    /\ \E k \in 1..Len(s) : IsDigit(s[k])

\* The number that the digits s[1..k] spell.
RECURSIVE DigitsValue(_, _)
DigitsValue(s, k) ==
    IF k = 0 \/ ~IsDigit(s[k]) THEN 0
    ELSE 10 * DigitsValue(s, k - 1) + DigitValue(s[k])

IntegerValue(s) ==
    IF s[1] = "-" THEN -DigitsValue(SubSeq(s, 2, Len(s)), Len(s) - 1)
    ELSE IF s[1] = "+" THEN DigitsValue(SubSeq(s, 2, Len(s)), Len(s) - 1)
    ELSE DigitsValue(s, Len(s))

Abs(x) == IF x < 0 THEN -x ELSE x

\* The product of |left - right| + 1 over the dimensions from k on.
RECURSIVE DimProduct(_, _)
DimProduct(dims, k) ==
    IF k > Len(dims) THEN 1
    ELSE (Abs(IntegerValue(dims[k][1]) - IntegerValue(dims[k][2])) + 1)
            * DimProduct(dims, k + 1)

AllBoundsIntegers(dims) ==
    \A k \in 1..Len(dims) : IsInteger(dims[k][1]) /\ IsInteger(dims[k][2])

\* C18: with at least one packed dimension, num_bits is the product of
\* |left - right| + 1 over all dimensions when every bound is a decimal
\* integer, the sentinel 404 when a bound is not, and never 0.
C18_PackedBits ==
    (Called("port_parameter_bits_ansi") /\ Len(DeclDims) > 0)
        => /\ CallReturned("port_parameter_bits_ansi")
           /\ param.num_bits # Some(0)
           /\ param.num_bits =
                IF AllBoundsIntegers(DeclDims) THEN Some(DimProduct(DeclDims, 1))
                ELSE Some(404)

\* The bit count that the type table gives a Reg or Logic parameter.
VectorTable ==
    IF ~param.explicit_datatype THEN Some(1)
    ELSE IF ~HasDefault THEN Nothing
    ELSE IF Len(decl.p) = 1 /\ decl.p[1].size # << >>
    THEN Some(IntegerValue(decl.p[1].size))
    ELSE IF Len(decl.p) = 1 /\ decl.p[1].node = "UnbasedUnsizedLiteral"
    THEN Some(1)
    ELSE Some(32)

\* The types of the table, with their bit counts.
TypeTable ==
    [Class |-> Nothing, Bit |-> Some(1), Byte |-> Some(8), Shortint |-> Some(16),
     Integer |-> Some(32), Int |-> Some(32), Shortreal |-> Some(32),
     Longint |-> Some(64), Time |-> Some(64), Real |-> Some(64),
     Realtime |-> Some(64), Unsupported |-> Some(404)]

\* C19: without packed dimensions the bit count follows the type table, and
\* for Reg and Logic it is 1 when the type is not overridable, otherwise
\* None without a default, the declared size of a sized literal, 1 for an
\* unbased unsized literal and 32 for anything else.
C19_TypeTable ==
    (Called("port_parameter_bits_ansi") /\ Len(DeclDims) = 0)
        => /\ param.datatype = Nothing
                => CallReturned("port_parameter_bits_ansi")
                    /\ param.num_bits = Nothing
           /\ \A t \in DOMAIN TypeTable :
                param.datatype = Some(t)
                    => CallReturned("port_parameter_bits_ansi")
                        /\ param.num_bits = TypeTable[t]
           /\ param.datatype \in {Some("Reg"), Some("Logic")}
                => CallReturned("port_parameter_bits_ansi")
                    /\ param.num_bits = VectorTable

\* The declaration carries no Signing and resolves to Logic, and the call
\* of port_parameter_signedness_ansi was the last call.
LogicWithoutSigning ==
    /\ Called("port_parameter_signedness_ansi")
    /\ param.datatype = Some("Logic")
    /\ (decl.common_data = Nothing \/ decl.common_data[1].signing = "none")

\* The default is one literal that carries a signedness.
LiteralDefault ==
    /\ Len(decl.p) = 1
    /\ decl.p[1].node \in IntegralNumber \cup {"UnbasedUnsizedLiteral"}

\* The signedness that the base of a literal spells.
LiteralSignedness(x) ==
    IF x.node = "UnbasedUnsizedLiteral" THEN "Unsigned"
    ELSE IF x.node = "UnsignedNumber" THEN "Signed"
    ELSE IF x.token \in {"'sb", "'sh", "'so", "'sd"} THEN "Signed"
    ELSE "Unsigned"

\* C20 as stated: a Logic parameter without Signing is (Unsigned,
\* overridable) when it has no default, and with a default literal its
\* signedness is the one of the literal, also when the type was declared.
C20_SignednessFromDefault ==
    LogicWithoutSigning
        => /\ CallReturned("port_parameter_signedness_ansi")
           /\ ~HasDefault
                => param.signedness = Some("Unsigned") /\ param.explicit_signedness
           /\ LiteralDefault
                => param.signedness = Some(LiteralSignedness(decl.p[1]))

\* C20 amended: a Logic parameter without Signing is (Unsigned, overridable)
\* when its type was declared or it has no default; only when the type is
\* derived from a default literal is its signedness the one of the literal.
C20_SignednessOfDerivedLogic ==
    LogicWithoutSigning
        => /\ CallReturned("port_parameter_signedness_ansi")
           /\ (~param.explicit_datatype \/ ~HasDefault)
                => param.signedness = Some("Unsigned") /\ param.explicit_signedness
           /\ (param.explicit_datatype /\ LiteralDefault)
                => param.signedness = Some(LiteralSignedness(decl.p[1]))

\* The three semantic violations, read off the resolved record and the
\* declaration.
PackedDimsOnScalar ==
    /\ Len(DeclDims) > 0
    /\ param.datatype \in {Some("Integer"), Some("Real"), Some("String"), Some("Time")}

SigningOnUnsignable ==
    /\ param.signedness \in {Some("Signed"), Some("Unsigned")}
    /\ param.datatype \in {Some("Real"), Some("String")}

LocalParamWithoutDefault == decl.param_type = "LocalParam" /\ ~HasDefault

\* C21: the syntax validation aborts when packed dimensions meet Integer,
\* Real, String or Time, when Signed or Unsigned meets Real or String, and
\* on a LocalParam without default; no record is returned in these cases.
C21_SyntaxAborts ==
    /\ (Called("port_parameter_syntax_ansi")
            /\ (PackedDimsOnScalar \/ SigningOnUnsignable \/ LocalParamWithoutDefault))
        => pc = "aborted"
    /\ LocalParamWithoutDefault => pc # "returned"

\* The common data names a type that port_parameter_datatype_ansi does not
\* classify.
UnclassifiedType ==
    /\ decl.common_data # Nothing
    /\ decl.common_data[1].data_type \notin TypeNodes \cup {"string", "implicit"}

\* C22: apart from the three semantic violations, resolving a parameter
\* returns a record; a declared type that cannot be classified resolves to
\* Unsupported, and every resolved type gets a bit count, None or 404.
C22_NeverAborts ==
    /\ pc = "aborted"
        => /\ Called("port_parameter_syntax_ansi")
           /\ (PackedDimsOnScalar \/ SigningOnUnsignable \/ LocalParamWithoutDefault)
    /\ (UnclassifiedType /\ ~Called("none"))
        => param.datatype = Some("Unsupported")
    /\ (Called("port_parameter_bits_ansi") /\ Len(DeclDims) = 0)
        => CallReturned("port_parameter_bits_ansi")

\* The port declarations among the first k events, in the order of their
\* Enter events.
RECURSIVE PortsDeclared(_, _)
PortsDeclared(ev, k) ==
    IF k = 0 THEN << >>
    ELSE IF ev[k].enter /\ ev[k].node.kind = "AnsiPortDeclaration"
    THEN Append(PortsDeclared(ev, k - 1), ev[k].node.body[1])
    ELSE PortsDeclared(ev, k - 1)

\* The declaration of the k-th port of the module.
PortDeclared(k) == PortsDeclared(events, pos)[k]

\* The declaration d holds none of DataType, Signing, NetType, VarDataType,
\* PortDirection and PackedDimension.
DeclaresNothing(d) ==
    /\ d.direction = Nothing
    /\ d.net_type = Nothing
    /\ ~d.var_data_type
    /\ d.data_type = "implicit"
    /\ d.signing = Nothing
    /\ d.packed_dimensions = << >>

\* The ports a and b agree on all that a port inherits.
SameDeclaredType(a, b) ==
    /\ a.direction = b.direction
    /\ a.nettype = b.nettype
    /\ a.datakind = b.datakind
    /\ a.datatype = b.datatype
    /\ a.classid = b.classid
    /\ a.signedness = b.signedness
    /\ a.packed_dimensions = b.packed_dimensions

\* The ports j + 1 .. k all declare nothing.
RunOfBarePorts(j, k) == \A i \in (j + 1)..k : DeclaresNothing(PortDeclared(i))

\* The port record of a declaration without a predecessor that declares
\* nothing has the defaults of a declaration of its own.
FirstPortComputed(port) ==
    /\ port.direction = "Inout"
    /\ port.datatype = "Logic"
    /\ port.classid = Nothing
    /\ port.signedness = Some("Unsigned")
    /\ port.packed_dimensions = << >>

\* C23: in a port list processed in declaration order, a port that has a
\* predecessor and whose declaration holds none of DataType, Signing,
\* NetType, VarDataType, PortDirection, PackedDimension has the direction,
\* nettype, datakind, datatype, classid, signedness and packed dimensions of
\* the port before it, so every port of a run of such ports equals the last
\* fully declared one; identifier, unpacked dimensions and comment are those
\* of its own declaration; the first port never inherits, the previous port
\* being the port parsed last.
C23_PortInheritance ==
    /\ Len(module_ret.ports) <= Len(PortsDeclared(events, pos))
    /\ prev_port = IF module_ret.ports = << >> THEN Nothing
                   ELSE Some(module_ret.ports[Len(module_ret.ports)])
    /\ \A k \in DOMAIN module_ret.ports :
        /\ module_ret.ports[k].identifier = PortDeclared(k).identifier
        /\ module_ret.ports[k].unpacked_dimensions = PortDeclared(k).unpacked_dimensions
        /\ module_ret.ports[k].comment = PortDeclared(k).comment
        /\ \A j \in 1..(k - 1) :
            RunOfBarePorts(j, k) => SameDeclaredType(module_ret.ports[k], module_ret.ports[j])
        /\ (k = 1 /\ DeclaresNothing(PortDeclared(k))) => FirstPortComputed(module_ret.ports[k])

\* The direction of the k-th port as the declarations give it: explicit,
\* else that of the port before it, else Inout.
RECURSIVE DirectionDeclared(_)
DirectionDeclared(k) ==
    IF PortDeclared(k).direction # Nothing THEN PortDeclared(k).direction[1]
    ELSE IF k > 1 THEN DirectionDeclared(k - 1)
    ELSE "Inout"

\* The k-th port computes its own fields.
NotInheriting(k) == k = 1 \/ ~DeclaresNothing(PortDeclared(k))

\* The declaration d is of the variable form and holds one of PortDirection,
\* DataType, Signing, PackedDimension.
VariableWithType(d) ==
    /\ d.form = "Variable"
    /\ \/ d.direction # Nothing
       \/ d.data_type # "implicit"
       \/ d.signing # Nothing
       \/ d.packed_dimensions # << >>

\* The net type that the direction gives a declaration d without NetType.
DefaultNettype(d, direction) ==
    CASE direction \in {"Inout", "Input"} -> Some("Wire")
      [] direction = "Output" -> IF d.data_type # "implicit" THEN Nothing ELSE Some("Wire")
      [] direction = "Ref" -> Nothing

\* C24: a port that does not inherit, has no NetType token and is not a
\* variable-form declaration with one of PortDirection, DataType, Signing,
\* PackedDimension, in the net form and in the variable form alike, has the
\* net type that its direction gives: Wire for Inout and Input; for Output
\* None with a DataType and Wire without; None for Ref.  The data kind is
\* Net exactly when the net type is not None.
C24_NettypeByDirection ==
    \A k \in DOMAIN module_ret.ports :
        /\ (/\ NotInheriting(k)
            /\ PortDeclared(k).form \in {"Net", "Variable"}
            /\ PortDeclared(k).net_type = Nothing
            /\ ~VariableWithType(PortDeclared(k)))
            => module_ret.ports[k].nettype
                    = DefaultNettype(PortDeclared(k), DirectionDeclared(k))
        /\ module_ret.ports[k].datakind = "Net" <=> module_ret.ports[k].nettype # Nothing

\* The nesting depth after the first k events of ev.
RECURSIVE EventDepth(_, _)
EventDepth(ev, k) ==
    IF k = 0 THEN 0 ELSE EventDepth(ev, k - 1) + (IF ev[k].enter THEN 1 ELSE -1)

\* The nesting depth after each event of ev.
EventDepths(ev) == [k \in DOMAIN ev |-> EventDepth(ev, k)]

\* With the depths dp of the events ev: the node entered at a encloses the
\* node entered at i.
Encloses(ev, dp, a, i) ==
    /\ a < i
    /\ ev[a].enter
    /\ \A m \in a..(i - 1) : dp[m] >= dp[a]

\* The Leave of the node entered at i.
LeaveOf(dp, i) == CHOOSE j \in (i + 1)..Len(dp) :
                    dp[j] < dp[i] /\ \A m \in i..(j - 1) : dp[m] >= dp[i]

\* The node entered at i has an enclosing ModuleAnsiHeader, and every node
\* between it and the nearest one is a WhiteSpace or a Symbol.
UnderHeader(ev, dp, i) ==
    \E h \in 1..(i - 1) :
        /\ Encloses(ev, dp, h, i)
        /\ ev[h].node.kind = "ModuleAnsiHeader"
        /\ \A a \in (h + 1)..(i - 1) :
            Encloses(ev, dp, a, i) => ev[a].node.kind \in {"WhiteSpace", "Symbol"}

\* The Enter events of the comments of ev that are to be collected.
ModuleComments(ev, dp) ==
    {i \in DOMAIN ev : ev[i].enter /\ ev[i].node.kind = "Comment" /\ UnderHeader(ev, dp, i)}

\* C29: a Comment node is visited on its Enter and on its Leave, and is
\* appended to the comments of the module at most once, and exactly when
\* every node between it and the nearest enclosing ModuleAnsiHeader is a
\* WhiteSpace or a Symbol; a comment without a ModuleAnsiHeader above it is
\* never appended; the parent stack is empty when the traversal ends.
C29_ModuleComments ==
    \A dp \in {EventDepths(events)} :
        /\ Len(module_ret.comments)
                <= Cardinality({i \in ModuleComments(events, dp) : i <= pos})
        /\ Len(module_ret.comments)
                >= Cardinality({i \in ModuleComments(events, dp) : LeaveOf(dp, i) <= pos})
        /\ pc = "walked" => parent_stack = << >>

\* C25: wildcard_eq treats its operands differently: when a has an X or Z
\* bit the answer is logic1b_x, also when b has X or Z at that position;
\* when neither operand has an X or Z bit the answer is logical_eq(a, b).
C25_WildcardAsymmetry ==
    Returned("wildcard_eq")
        => /\ HasXZ(lhs) => res = logic1b_x
           /\ (~HasXZ(lhs) /\ ~HasXZ(rhs)) => res = logical_eq(lhs, rhs)

\* The operand v has become w by sign extension: the positions below the
\* size of v are unchanged and every position from there on has the state
\* of the most significant position of v.
SignReplicated(v, w) ==
    /\ w.size = Len(w.data_01) * BITS
    /\ \A i \in 0..(v.size - 1) : StateOf(w, i) = StateOf(v, i)
    /\ \A i \in v.size..(w.size - 1) : StateOf(w, i) = StateOf(v, v.size - 1)

\* C26: for two signed operands _matched_sign_extend leaves both with the
\* same word count and a size of that many words, keeps the positions below
\* the original size and fills the positions from the original size on with
\* the state of the original most significant position, 0, 1, X or Z, in
\* data_01 and data_xz, also when lower positions are X or Z.
C26_SignReplication ==
    (Returned("_matched_sign_extend") /\ lhs.signed /\ rhs.signed)
        => /\ ~IsPanic(res[1])
           /\ Len(res[1].data_01) = Len(res[2].data_01)
           /\ SignReplicated(lhs, res[1])
           /\ SignReplicated(rhs, res[2])

\* C27: on a four-state value whose word count becomes smaller,
\* _minimum_width leaves data_xz with as many words as data_01, and every
\* word kept is the original word of data_xz at the same index: only
\* high-order words are dropped.
C27_ShrinkKeepsLowWords ==
    (/\ Returned("_minimum_width") /\ is_4state(lhs) /\ ~IsPanic(res)
     /\ Len(res.data_01) < Len(lhs.data_xz))
        => /\ Len(res.data_xz) = Len(res.data_01)
           /\ \A x \in 1..Len(res.data_xz) : res.data_xz[x] = lhs.data_xz[x]

\* res is lhs cut to its low k positions: the positions below k are those
\* of lhs and no position from k on is set in data_01 or data_xz.
CutTo(k) ==
    /\ res.size = k
    /\ \A i \in 0..(k - 1) : StateOf(res, i) = StateOf(lhs, i)
    /\ \A i \in k..(Len(res.data_01) * BITS) : StateOf(res, i) = <<0, 0>>

\* C28: negate aborts on every unsigned value, an unsigned zero included;
\* _truncate(v, n) aborts when n = 0 or n > v.size, and otherwise sets the
\* size to n, clears every position from n on in data_01 and data_xz and
\* keeps the positions below n.
C28_ContractViolations ==
    /\ (Returned("negate") /\ ~lhs.signed) => IsPanic(res)
    /\ Returned("_truncate")
        => IF n = 0 \/ n > lhs.size THEN IsPanic(res)
           ELSE ~IsPanic(res) /\ CutTo(n)

\* The signed two-state value of minimum width whose two's-complement value
\* is u.
SignedCanonical(u) ==
    [data_01 |-> Words(u, WordCount(MinSignedWidth(u))), data_xz |-> None,
     size |-> MinSignedWidth(u), signed |-> TRUE]

\* C30: for every host word u, usize_to_primlit(u) is the signed two-state
\* value of minimum width whose two's-complement value at its size is u, so
\* "v + u" is add_primlit(v, x) with the value of x equal to u, never a
\* negative number.
C30_UsizePreserved ==
    /\ Returned("usize_to_primlit") => res = SignedCanonical(n)
    /\ Returned("add_usize") => res = add_primlit(lhs, SignedCanonical(n))

----------------------------------------------------------------------------
\* Reached cases.

\* C3: a signed two-state addition whose result is wider than one word.
C3_Witness ==
    /\ Returned("add_primlit") /\ TwoStateOps /\ BothSigned
    /\ lhs.size < rhs.size
    /\ res.size = rhs.size + 1
    /\ res.size > BITS

\* C5: a signed operand with X/Z multiplied by an unsigned two-state operand
\* gives an unsigned all-X result.
C5_Witness ==
    /\ Returned("mult") /\ HasXZ(lhs) /\ ~is_4state(rhs)
    /\ lhs.signed /\ ~rhs.signed /\ ~res.signed
    /\ res.size = lhs.size + rhs.size
    /\ res.size >= 3
    /\ \A i \in 0..(res.size - 1) :
           Bit(res.data_01, i) = 0 /\ Bit(res.data_xz, i) = 1

\* C7: ge with X/Z in the right operand only returns X.
C7_Witness ==
    /\ Returned("ge") /\ HasXZ(rhs) /\ ~HasXZ(lhs)
    /\ res = logic1b_x

\* C8: gt of two negative values of different widths answers 1, as lt does
\* on the swapped operands.
C8_Witness ==
    /\ Returned("gt") /\ TwoStateOps /\ BothSigned
    /\ Twos(lhs) < 0 /\ Twos(rhs) < 0
    /\ lhs.size # rhs.size
    /\ res = logic1b_1
    /\ lt(rhs, lhs) = logic1b_1

\* C9: case_eq of a value with X/Z and a value without, with the same
\* data_01, answers 0.
C9_Witness ==
    /\ Returned("case_eq") /\ HasXZ(lhs) /\ ~HasXZ(rhs)
    /\ lhs.data_01 = rhs.data_01
    /\ res = bit1b_0

\* C10: the same negative value stored at two widths with different word
\* counts compares equal.
C10_Witness ==
    /\ Returned("case_eq") /\ TwoStateOps /\ BothSigned
    /\ Twos(lhs) < 0
    /\ Len(lhs.data_01) < Len(rhs.data_01)
    /\ res = bit1b_1

\* C12: inv of a value with a Z position and a two-state position: the Z
\* position is X in the result and the two-state position is flipped.
C12_Witness ==
    /\ Returned("inv") /\ ~IsPanic(res)
    /\ \E i, j \in 0..(lhs.size - 1) :
           /\ IsXZAt(i) /\ Bit(lhs.data_01, i) = 1
           /\ Bit(res.data_01, i) = 0 /\ Bit(res.data_xz, i) = 1
           /\ ~IsXZAt(j) /\ Bit(res.data_01, j) = 1 - Bit(lhs.data_01, j)

\* C13: a rotation to the right of a value of more than one word that moves
\* a set bit from position 0 to the top, undone by the rotation to the left.
C13_Witness ==
    /\ Returned("ror") /\ ~IsPanic(res)
    /\ n >= 1
    /\ lhs.size > BITS
    /\ lhs.size % BITS # 0
    /\ Bit(lhs.data_01, 0) = 1
    /\ Bit(res.data_01, lhs.size - n) = 1
    /\ res # lhs
    /\ rol(res, n) = lhs

C20_Witness ==
    /\ LogicWithoutSigning
    /\ CallReturned("port_parameter_signedness_ansi")
    /\ decl.common_data # Nothing
    /\ decl.common_data[1].data_type = "Logic"
    /\ LiteralDefault
    /\ LiteralSignedness(decl.p[1]) = "Signed"
    /\ param.signedness = Some("Unsigned")
    /\ param.explicit_signedness

\* C21: the validation of a LocalParam without default, of implicit type,
\* aborts after every field was resolved.
C21_Witness ==
    /\ CallAborted("port_parameter_syntax_ansi")
    /\ LocalParamWithoutDefault
    /\ ~PackedDimsOnScalar
    /\ ~SigningOnUnsignable
    /\ param.datatype = Some("Logic")
    /\ param.num_bits = Some(1)

\* C23: "input logic [7:0] a, x, y [3:0] // last" has been traversed.
C23_Witness ==
    /\ pc = "walked"
    /\ Len(module_ret.ports) = 3
    /\ PortDeclared(1).identifier = "a"
    /\ RunOfBarePorts(1, 3)
    /\ module_ret.ports[3].identifier = "y"
    /\ module_ret.ports[3].comment = Some(<<"// last">>)
    /\ module_ret.ports[3].direction = "Input"
    /\ module_ret.ports[3].packed_dimensions = Packed70
    /\ module_ret.ports[2].unpacked_dimensions = << >>
    /\ module_ret.ports[3].unpacked_dimensions # << >>

\* C29: a tree with a comment below a Symbol and a WhiteSpace of the header,
\* collected once, has been traversed.
C29_Witness ==
    /\ pc = "walked"
    /\ Len(events) = 10
    /\ {events[k].node.kind : k \in 2..5} = {"ModuleAnsiHeader", "Symbol", "WhiteSpace", "Comment"}
    /\ events[5].enter
    /\ events[5].node.kind = "Comment"
    /\ module_ret.comments = <<"// c">>
    /\ parent_stack = << >>

\* C25: wildcard_eq has answered X for operands of which the left has an X
\* or Z at a position where the right has one too, every other position
\* being equal.
C25_Witness ==
    /\ Returned("wildcard_eq")
    /\ res = logic1b_x
    /\ lhs.size = 2
    /\ rhs.size = 2
    /\ lhs.signed = rhs.signed
    /\ StateOf(lhs, 0)[2] = 1
    /\ StateOf(rhs, 0)[2] = 1
    /\ StateOf(lhs, 1) = StateOf(rhs, 1)
    /\ StateOf(lhs, 1)[2] = 0

====
